---- MODULE Spec2Model ----
(***************************************************************************)
(* The server-side job object (AnalysisObject) of ai-capture-analyser.     *)
(* The repository holds four versions of the Durable Object:               *)
(*   p004  src/unnamed/part_004  handleProcessRequest, guard status#idle   *)
(*   p005  src/unnamed/part_005  handleProcessRequest, request-shape       *)
(*                               fallbacks and reply parsing, no guard     *)
(*   p007  src/unnamed/part_007  handleProcessRequest/handleCompareRequest *)
(*                               one AI.run call, no guard                 *)
(*   p008  src/unnamed/part_008  handleAnalyzeRequest/handleCompareRequest *)
(*                               guard status=processing, detached         *)
(*                               processAnalysis/processComparison         *)
(* One session (one Durable Object instance) is modelled.  A handler is    *)
(* cut at the awaits at which the runtime can deliver another request:     *)
(* the read of the request body and the call of the model.  An awaited     *)
(* storage write closes the object's input gate, so it is part of the      *)
(* step that issues it.                                                    *)
(***************************************************************************)
EXTENDS Integers, Sequences, FiniteSets, TLC

VARIABLES
    variant,    \* which version of AnalysisObject is deployed
    status,     \* this.status
    result,     \* this.result
    error,      \* this.error (p005, p007), a message or NoError
    storage,    \* this.state.storage: key -> value
    req,        \* the requests in flight: slot -> position and locals
    resp,       \* the HTTP response produced by the step just taken
    run,        \* the outcome of the model call consumed by the step just taken
    submitted,  \* whether a submit request has been delivered to the object
    call,       \* the calls of Backend.analyzePcap / comparePcaps: slot -> state
    polls,      \* the status requests of Backend.pollStatus in flight
    made,       \* the result that the job of each call's submit produced
    page,       \* the page of the button-driven client (script.js)
    here,       \* the name of the Durable Object that the variables above show
    others,     \* the other Durable Objects of the namespace: name -> state
    parser,     \* the call of PcapParser.parse: its file, outcome and progress
    app,        \* the page of PCAPAnalyzerApp: the report held, shown and exported
    dom,        \* the elements and timers of the pages of the other clients
    prompt      \* the prompt last built by formatPrompt, with its inputs

objectVars == <<variant, status, result, error, storage, req, resp, run, submitted>>
backendVars == <<call, polls, made>>
browserVars == <<page>>
workerVars == <<here, others>>
appVars == <<parser, app, dom, prompt>>

vars == <<variant, status, result, error, storage, req, resp, run, submitted,
          call, polls, made, page, here, others, parser, app,
          dom,
          prompt>>

(***************************************************************************)
(* Bounds of the model.                                                    *)
(***************************************************************************)
\* Requests that can be in flight on the object at the same time.
MaxReq == 2
\* Length, in tokens, of a model reply's text.
MaxLen == 3
\* Status requests of one pollStatus that can be in flight at the same time.
MaxPoll == 2

Slots == 1..MaxReq

Variants == {"p004", "p005", "p007", "p008"}

(***************************************************************************)
(* JavaScript values, as far as the handlers distinguish them.             *)
(***************************************************************************)
Null == [t |-> "null"]
Absent == [t |-> "absent"]
\* A plain object with the own keys K; arr: anomalies_and_errors is an array.
Obj(K, a) == [t |-> "obj", keys |-> K, arr |-> a]
\* An array of n elements.
Arr(n) == [t |-> "arr", n |-> n]
\* A string value with the text x.
Str(x) == [t |-> "str", text |-> x]
\* { raw_response: p } and { raw_response: p, error: "Failed to parse ..." }.
RawObj(p, e) == [t |-> "raw", raw |-> p, err |-> e]
\* The response object of the model itself, wrapper included.
RespObj(r) == [t |-> "resp", reply |-> r]
\* The rendered HTML of part_004's renderReport.
Html == [t |-> "html"]
\* The job record of part_008 and part_004: { file_name.., report?, error? }.
JobObj(f, r, he, e) == [t |-> "job", files |-> f, report |-> r, hasErr |-> he, error |-> e]

NoError == "<null>"

SchemaKeys == {"summary", "protocol_distribution", "anomalies_and_errors",
               "sip_rtp_info", "important_timestamps_packets"}

\* Object.keys(v) of an object value.
Keys(v) ==
    CASE v.t = "obj" -> v.keys
      [] v.t = "arr" -> {i \in 1..v.n : TRUE}
      [] v.t = "raw" -> {"raw_response"} \cup (IF v.err THEN {"error"} ELSE {})
      [] v.t = "resp" -> {v.reply.shape}
      [] v.t = "job" -> (IF v.files = "one" THEN {"file_name"} ELSE {})
                        \cup (IF v.files = "two" THEN {"file_name1", "file_name2"} ELSE {})
                        \cup (IF v.report # Absent THEN {"report"} ELSE {})
                        \cup (IF v.hasErr THEN {"error"} ELSE {})
      [] OTHER -> {}

IsObject(v) == v.t \in {"obj", "arr", "raw", "resp", "job"}

\* !v
Falsy(v) == v = Null \/ v = Absent \/ (v.t = "str" /\ v.text = <<>>)

(***************************************************************************)
(* The text of a model reply: a sequence of tokens.  "F", "G" and "P" are  *)
(* lists of "key": value members without the enclosing braces:             *)
(*   F  the five keys of the schema, anomalies_and_errors an array,        *)
(*      protocol_distribution an object (F holds { } and [ ] of its own)   *)
(*   G  the five keys, anomalies_and_errors a string (G holds { })         *)
(*   P  "summary": "..." alone                                             *)
(* "w" is a word of prose and "n" the literal null.                        *)
(***************************************************************************)
Tokens == {"{", "}", "[", "]", "F", "G", "P", "w", "n"}

Texts == UNION {[1..k -> Tokens] : k \in 0..MaxLen}

MemberKeys(b) == IF b = "P" THEN {"summary"} ELSE SchemaKeys

\* JSON.parse(x) returns (does not throw).
RECURSIVE CanParse(_)
CanParse(x) ==
    \/ x = <<"n">>
    \/ x = <<"{", "}">>
    \/ Len(x) = 3 /\ x[1] = "{" /\ x[2] \in {"F", "G", "P"} /\ x[3] = "}"
    \/ x = <<"[", "]">>
    \/ Len(x) >= 3 /\ x[1] = "[" /\ x[Len(x)] = "]" /\ CanParse(SubSeq(x, 2, Len(x) - 1))

\* JSON.parse(x), where it returns.
JsonParse(x) ==
    CASE x = <<"n">> -> Null
      [] x = <<"{", "}">> -> Obj({}, FALSE)
      [] Len(x) = 3 /\ x[1] = "{" -> Obj(MemberKeys(x[2]), x[2] = "F")
      [] x = <<"[", "]">> -> Arr(0)
      [] OTHER -> Arr(1)

\* The protocol_distribution object inside F or G.
Distribution == Obj({"TCP"}, FALSE)

(***************************************************************************)
(* response.match(/\{[\s\S]*\}|\[[\s\S]*\]/): the leftmost opener that has *)
(* a closer of its kind after it, up to the last such closer.  F and G     *)
(* hold the braces of protocol_distribution, F the brackets of the array.  *)
(***************************************************************************)
HoldsBrace(tok) == tok \in {"F", "G"}
HoldsBracket(tok) == tok = "F"

StartsMatch(x, i) ==
    \/ x[i] = "{" /\ \E j \in (i + 1)..Len(x) : x[j] = "}" \/ HoldsBrace(x[j])
    \/ x[i] = "[" /\ \E j \in (i + 1)..Len(x) : x[j] = "]" \/ HoldsBracket(x[j])
    \/ HoldsBrace(x[i])

MatchStarts(x) == {i \in 1..Len(x) : StartsMatch(x, i)}

Min(S) == CHOOSE m \in S : \A n \in S : m <= n
Max(S) == CHOOSE m \in S : \A n \in S : m >= n

\* [found, ok, val]: whether the regex matches, whether JSON.parse of the
\* match returns, and what it returns.
ExtractJson(x) ==
    IF MatchStarts(x) = {} THEN [found |-> FALSE, ok |-> FALSE, val |-> Null]
    ELSE
      LET i == Min(MatchStarts(x))
          brace == x[i] # "["
          j == IF brace
               THEN Max({k \in i..Len(x) : (k > i /\ x[k] = "}") \/ HoldsBrace(x[k])})
               ELSE Max({k \in (i + 1)..Len(x) : x[k] = "]" \/ HoldsBracket(x[k])})
          whole == x[i] \in {"{", "["} /\ x[j] \in {"}", "]"}
          inner == HoldsBrace(x[i]) /\ j = i
      IN  IF whole /\ CanParse(SubSeq(x, i, j))
          THEN [found |-> TRUE, ok |-> TRUE, val |-> JsonParse(SubSeq(x, i, j))]
          ELSE IF inner
          THEN [found |-> TRUE, ok |-> TRUE, val |-> Distribution]
          ELSE [found |-> TRUE, ok |-> FALSE, val |-> Null]

(***************************************************************************)
(* What env.AI.run can return: a response of one of the shapes the         *)
(* handlers distinguish, carrying a text or, for the *_obj and object      *)
(* shapes, the object that the text denotes.                               *)
(*   none             undefined / null                                     *)
(*   string           the text itself                                      *)
(*   response/result  { response: text } / { result: text }                *)
(*   response_obj..   { response: object } / { result: object }            *)
(*   choices_message  { choices: [ { message: { content: text } } ] }      *)
(*   choices_text     { choices: [ { text: text } ] }                      *)
(*   choices_other    { choices: [ {} ] }                                  *)
(*   message          { message: { content: text } }                       *)
(*   object           an object with none of these properties              *)
(***************************************************************************)
TextShapes == {"string", "response", "result", "choices_message", "choices_text", "message"}
ObjShapes == {"response_obj", "result_obj", "object"}

Reply(s, x) == [shape |-> s, text |-> x]

NoReply == Reply("none", <<>>)

AllReplies ==
    {NoReply, Reply("choices_other", <<>>)}
    \cup {Reply(s, x) : s \in TextShapes, x \in Texts}
    \cup {Reply(s, x) : s \in ObjShapes,
                        x \in {y \in Texts : CanParse(y) /\ JsonParse(y) # Null}}

\* The replies of the life-cycle specification: one of each outcome.
CoreReplies ==
    {NoReply,
     Reply("string", <<"{", "F", "}">>),
     Reply("string", <<"w">>),
     Reply("object", <<"{", "}">>),
     Reply("response", <<"{", "P", "}">>)}

\* The JavaScript value of a response.
JSOf(r) ==
    CASE r.shape = "none" -> Null
      [] r.shape = "string" -> Str(r.text)
      [] r.shape = "object" -> JsonParse(r.text)
      [] OTHER -> RespObj(r)

\* The messages of the errors that env.AI.run and the code before it throw.
UpstreamMsgs == {"", "model overloaded"}
PreMsg == "Unexpected end of JSON input"

(***************************************************************************)
(* part_005, handleProcessRequest: the parse of the model's response.      *)
(***************************************************************************)
\* part_005:621-635, typeof response === 'string'
ParseString(r) ==
    IF CanParse(r.text) THEN JsonParse(r.text)
    ELSE LET m == ExtractJson(r.text)
         IN  IF ~m.found THEN RawObj(r, FALSE)
             ELSE IF m.ok THEN m.val
             ELSE RawObj(r, TRUE)

ParseFieldUnparsed(r) == RawObj(r, TRUE)

ParseFieldStrict(r) == IF CanParse(r.text) THEN JsonParse(r.text) ELSE Null

\* part_005:636-639, response.response / response.result
ParseField(r) ==
    IF CanParse(r.text) THEN JsonParse(r.text) ELSE RawObj(r, TRUE)

\* part_005:640-664, choices[0].message.content / choices[0].text / message.content
ParseContent(r) ==
    IF CanParse(r.text) THEN JsonParse(r.text) ELSE RawObj(Reply("string", r.text), FALSE)

\* part_005:618-679, from a truthy response to the result
ParseResponse(r) ==
    CASE r.shape = "string" -> ParseString(r)
      [] r.shape \in {"response", "result"} /\ r.text # <<>> -> ParseField(r)
      [] r.shape \in {"response_obj", "result_obj"} -> JsonParse(r.text)
      [] r.shape \in {"choices_message", "choices_text", "message"} /\ r.text # <<>> ->
             ParseContent(r)
      [] r.shape = "object" -> JsonParse(r.text)
      [] OTHER -> RespObj(r)

\* part_005:613-615, !response
EmptyResponse(r) == r.shape = "none" \/ (r.shape = "string" /\ r.text = <<>>)

\* part_005:681-684, !result || (typeof result === 'object' && Object.keys(result).length === 0)
InvalidResult(v) == Falsy(v) \/ (IsObject(v) /\ Keys(v) = {})

(***************************************************************************)
(* The state of the object and of the requests in flight.                  *)
(***************************************************************************)
FreeSlot == [pc |-> "free", kind |-> "none", calls |-> <<>>]

NoResp == [code |-> 0, op |-> "none"]
NoRun == [outcome |-> "none"]
Threw(s, shape, m) == [outcome |-> "threw", slot |-> s, shape |-> shape, msg |-> m]
Returned(s, shape, r) == [outcome |-> "returned", slot |-> s, shape |-> shape, reply |-> r]

Unset == "<unset>"
EmptyStorage == [status |-> Unset, result |-> Absent, error |-> Unset]

(***************************************************************************)
(* The calls of the Backend client (src/public/config.js, part_010).  The  *)
(* request of call c travels in slot c of the object.  A call is           *)
(*   none      no Backend: the requests of the slot are anonymous          *)
(*   idle      not yet made                                                *)
(*   posted    fetch(POST) sent, not yet delivered to the object           *)
(*   waiting   delivered; reply holds the response once it is produced     *)
(*   polling   pollStatus has set its interval timer; the promise pends    *)
(*   resolved / rejected   the promise is settled with value               *)
(* timer is the period of the interval timer in ms, 0 when there is none.  *)
(***************************************************************************)
PollIds == 1..MaxPoll

NoCall == [pc |-> "none", kind |-> "none", timer |-> 0, reply |-> NoResp, value |-> Absent]
IdleCall == [NoCall EXCEPT !.pc = "idle"]
NoPoll == [st |-> "free"]

\* The page of script.js before a click: no indicator, no report, no message.
BlankPage == [pc |-> "idle", loading |-> FALSE, report |-> "", message |-> "", fault |-> "none"]

\* No page is open.
NoPage == page = BlankPage

(***************************************************************************)
(* The Worker: env.ANALYSIS_OBJECT.idFromName(sessionId) names one Durable *)
(* Object per session id.  The variables status .. submitted show the      *)
(* object named `here`; `others` keeps the state of every other object.    *)
(***************************************************************************)
\* The names of the objects, and the X-Session-ID header of a request
\* (NoHeader: the request has none; "": it has an empty one).
Names == {"default", "a"}
NoHeader == "<none>"
Headers == {NoHeader, "", "default", "a"}

\* The state of an object after its constructor.
Fresh ==
    [status |-> "idle", result |-> Obj({}, FALSE), error |-> NoError,
     storage |-> EmptyStorage, req |-> [s \in Slots |-> FreeSlot], submitted |-> FALSE]

\* The object shown, and no other object touched yet.
\* No file has been handed to the parser.
NoFile == [name |-> <<>>, size |-> 0, content |-> "none"]
IdleParser == [pc |-> "idle", file |-> NoFile, checked |-> Absent,
               callback |-> FALSE, progress |-> 0, reported |-> <<>>]
NoParse == parser = IdleParser

\* The application holds no report and has exported and rendered nothing.
NoText == <<>>
IdleApp == [client |-> "none", currentAnalysisData |-> Null, exported |-> NoText,
            rendered |-> Absent, runs |-> <<>>, loadingIndicator |-> FALSE,
            exportButtons |-> "hidden", reportContainer |-> Absent]
NoApp == app = IdleApp

\* The pages of the other clients before any click: nothing shown, no job
\* started.
NoJob == 0
BlankDom == [jobs |-> <<>>, reportContainer |-> [of |-> NoJob, what |-> "empty"],
             loadingIndicator |-> FALSE,
             currentJobId |-> NoJob, started |-> <<>>, intervals |-> <<>>,
             reportOutput |-> [of |-> NoJob, what |-> "empty"],
             messageBox |-> [display |-> "none", message |-> 0, since |-> 0],
             timeouts |-> <<>>, now |-> 0,
             analysis |-> [pc |-> "idle", parse |-> "none", progress |-> 0, passed |-> <<>>]]
NoDom == dom = BlankDom

\* No prompt built yet.
Unbuilt == [type |-> "none"]
NoPrompt == prompt = Unbuilt

OneObject ==
    /\ here = "default"
    /\ others = [n \in Names |-> Fresh]

\* No Backend object exists: every request to the object is anonymous.
NoBackend ==
    /\ call = [c \in Slots |-> NoCall]
    /\ polls = [c \in Slots |-> [i \in PollIds |-> NoPoll]]
    /\ made = [c \in Slots |-> Absent]

InitProcessing ==
    /\ variant \in Variants
    /\ status = "processing"
    /\ result = Obj({}, FALSE)
    /\ error = NoError
    /\ storage = EmptyStorage
    /\ req = [s \in Slots |-> FreeSlot]
    /\ resp = NoResp
    /\ run = NoRun
    /\ submitted = FALSE
    /\ NoBackend
    /\ NoPage
    /\ OneObject
    /\ NoParse
    /\ NoApp
    /\ NoDom
    /\ NoPrompt

\* The constructors: status 'idle', result {}, error null; nothing stored.
Init ==
    /\ variant \in Variants
    /\ status = "idle"
    /\ result = Obj({}, FALSE)
    /\ error = NoError
    /\ storage = EmptyStorage
    /\ req = [s \in Slots |-> FreeSlot]
    /\ resp = NoResp
    /\ run = NoRun
    /\ submitted = FALSE
    /\ NoBackend
    /\ NoPage
    /\ OneObject
    /\ NoParse
    /\ NoApp
    /\ NoDom
    /\ NoPrompt

Kinds == {"analysis", "comparison"}

\* The body of the status response: part_005:478-486, part_007:646-654 with
\* the error; part_008:42-49, part_004:160-167 without.
StatusBody ==
    IF variant \in {"p005", "p007"}
    THEN [status |-> status, result |-> result, error |-> error]
    ELSE [status |-> status, result |-> result]

handleStatusRequestResetting ==
    /\ resp' = [code |-> 200, op |-> "status", body |-> StatusBody]
    /\ run' = NoRun
    /\ result' = Null
    /\ UNCHANGED <<variant, status, error, storage, req, submitted>>

\* handleStatusRequest, all versions.
handleStatusRequest ==
    /\ resp' = [code |-> 200, op |-> "status", body |-> StatusBody]
    /\ run' = NoRun
    /\ UNCHANGED <<variant, status, result, error, storage, req, submitted>>

(***************************************************************************)
(* part_005: handleProcessRequest, no guard on the status.                 *)
(***************************************************************************)
RequestShapesSwapped == <<"prompt", "input", "messages", "text">>

\* The order in which AI.run is given the prompt: part_005:560-608.
RequestShapes == <<"input", "prompt", "messages", "text">>

Stored(st, r, e) == [status |-> st, result |-> r, error |-> e]

\* part_005:694-702, the catch of handleProcessRequest: this.result is kept.
Fail5(s, msg, code) ==
    /\ status' = "error"
    /\ error' = msg
    /\ storage' = Stored("error", Null, msg)
    /\ resp' = [code |-> code, op |-> "submit", body |-> [status |-> "error", error |-> msg]]
    /\ req' = [req EXCEPT ![s] = FreeSlot]
    /\ UNCHANGED <<variant, result, submitted>>

\* part_005:503-507, up to the await of request.json()
P5_Begin(s, k) ==
    /\ variant = "p005"
    /\ req[s].pc = "free"
    /\ status' = "processing"
    /\ result' = Null
    /\ error' = NoError
    /\ storage' = Stored("processing", Null, NoError)
    /\ req' = [req EXCEPT ![s] = [pc |-> "body", kind |-> k, calls |-> <<>>]]
    /\ resp' = NoResp
    /\ run' = NoRun
    /\ submitted' = TRUE
    /\ UNCHANGED variant

\* part_005:509-563, the body is read and AI.run is called with { input }
P5_BodyOk(s) ==
    /\ variant = "p005"
    /\ req[s].pc = "body"
    /\ req' = [req EXCEPT ![s].pc = "run", ![s].calls = <<RequestShapes[1]>>]
    /\ resp' = NoResp
    /\ run' = NoRun
    /\ UNCHANGED <<variant, status, result, error, storage, submitted>>

\* part_005:545-553, type is neither 'analysis' nor 'comparison'
P5_BodyBadType(s) ==
    /\ variant = "p005"
    /\ req[s].pc = "body"
    /\ status' = "error"
    /\ error' = "Invalid analysis type provided."
    /\ storage' = Stored("error", Null, error')
    /\ resp' = [code |-> 400, op |-> "submit", body |-> [status |-> "error", error |-> error']]
    /\ req' = [req EXCEPT ![s] = FreeSlot]
    /\ run' = NoRun
    /\ UNCHANGED <<variant, result, submitted>>

\* part_005:510-516, request.json(), the env.AI check or atob throws
P5_BodyThrows(s) ==
    /\ variant = "p005"
    /\ req[s].pc = "body"
    /\ Fail5(s, "Analysis failed: " \o PreMsg, 500)
    /\ run' = NoRun

\* part_005:566-607, AI.run throws: the next shape is tried, or after the
\* fourth `All input formats failed` is thrown.
P5_RunThrows(s, m) ==
    /\ variant = "p005"
    /\ req[s].pc = "run"
    /\ run' = Threw(s, req[s].calls[Len(req[s].calls)], m)
    /\ IF Len(req[s].calls) < Len(RequestShapes)
       THEN /\ req' = [req EXCEPT ![s].calls = Append(@, RequestShapes[Len(@) + 1])]
            /\ resp' = NoResp
            /\ UNCHANGED <<variant, status, result, error, storage, submitted>>
       ELSE Fail5(s, "Analysis failed: All input formats failed. Last error: " \o m, 500)

\* part_005:613-692, AI.run returns: the response is parsed and checked
Returns5(s, r) ==
    /\ run' = Returned(s, req[s].calls[Len(req[s].calls)], r)
    /\ IF EmptyResponse(r)
       THEN Fail5(s, "Analysis failed: AI returned an empty response", 500)
       ELSE IF InvalidResult(ParseResponse(r))
       THEN Fail5(s, "Analysis failed: AI returned an empty or invalid result", 500)
       ELSE /\ result' = ParseResponse(r)
            /\ status' = "complete"
            /\ storage' = Stored("complete", result', NoError)
            /\ resp' = [code |-> 200, op |-> "submit",
                        body |-> [status |-> "complete", result |-> result']]
            /\ req' = [req EXCEPT ![s] = FreeSlot]
            /\ UNCHANGED <<variant, error, submitted>>

\* AI.run returns one of the replies R to the request in slot s.
P5_RunReturns(s, R) ==
    /\ variant = "p005"
    /\ req[s].pc = "run"
    /\ \E r \in R : Returns5(s, r)

(***************************************************************************)
(* part_007: handleProcessRequest and handleCompareRequest, one AI.run     *)
(* call with { prompt, ... }, no guard on the status.                      *)
(***************************************************************************)
FailPrefix7(k) == IF k = "analysis" THEN "Analysis failed: " ELSE "Comparison failed: "

\* part_007:688-695 and 733-740, the catch: this.result is kept
Fail7(s, msg) ==
    /\ status' = "error"
    /\ error' = msg
    /\ storage' = Stored("error", Null, msg)
    /\ resp' = [code |-> 200, op |-> "submit", body |-> [status |-> "error", error |-> msg]]
    /\ req' = [req EXCEPT ![s] = FreeSlot]
    /\ UNCHANGED <<variant, result, submitted>>

\* part_007:656-660 and 698-702, up to the await of request.json()
P7_Begin(s, k) ==
    /\ variant = "p007"
    /\ req[s].pc = "free"
    /\ status' = "processing"
    /\ result' = Null
    /\ error' = NoError
    /\ storage' = Stored("processing", Null, NoError)
    /\ req' = [req EXCEPT ![s] = [pc |-> "body", kind |-> k, calls |-> <<>>]]
    /\ resp' = NoResp
    /\ run' = NoRun
    /\ submitted' = TRUE
    /\ UNCHANGED variant

\* part_007:663-678 and 705-724, the body is read and AI.run is called
P7_BodyOk(s) ==
    /\ variant = "p007"
    /\ req[s].pc = "body"
    /\ req' = [req EXCEPT ![s].pc = "run", ![s].calls = <<"prompt">>]
    /\ resp' = NoResp
    /\ run' = NoRun
    /\ UNCHANGED <<variant, status, result, error, storage, submitted>>

\* part_007:663-668, request.json() or atob throws
P7_BodyThrows(s) ==
    /\ variant = "p007"
    /\ req[s].pc = "body"
    /\ Fail7(s, FailPrefix7(req[s].kind) \o PreMsg)
    /\ run' = NoRun

\* part_007:671-695, AI.run throws
P7_RunThrows(s, m) ==
    /\ variant = "p007"
    /\ req[s].pc = "run"
    /\ run' = Threw(s, "prompt", m)
    /\ Fail7(s, FailPrefix7(req[s].kind) \o m)

\* part_007:680-686 and 726-732, AI.run returns: the response is the result
P7_RunReturns(s, r) ==
    /\ variant = "p007"
    /\ req[s].pc = "run"
    /\ run' = Returned(s, "prompt", r)
    /\ result' = JSOf(r)
    /\ status' = "complete"
    /\ storage' = Stored("complete", result', NoError)
    /\ resp' = [code |-> 200, op |-> "submit",
                body |-> [status |-> "complete", result |-> result']]
    /\ req' = [req EXCEPT ![s] = FreeSlot]
    /\ UNCHANGED <<variant, error, submitted>>

(***************************************************************************)
(* part_008: handleAnalyzeRequest and handleCompareRequest reject a        *)
(* submit while the status is 'processing'; processAnalysis and            *)
(* processComparison run detached from the request.  There is no           *)
(* this.error: a message is kept in this.result.error.                     *)
(***************************************************************************)
FilesOf(k) == IF k = "analysis" THEN "one" ELSE "two"
FailPrefix8(k) == IF k = "analysis" THEN "LLM analysis failed: " ELSE "LLM comparison failed: "
ConflictText8(k) ==
    IF k = "analysis" THEN "Analysis is already in progress."
    ELSE "Comparison is already in progress."

\* part_008:52 and 85, the guard of the two submit handlers
Busy8 == status = "processing"

\* part_008:52-54 and 85-87
P8_Conflict(s, k) ==
    /\ variant = "p008"
    /\ req[s].pc = "free"
    /\ Busy8
    /\ resp' = [code |-> 409, op |-> "submit", text |-> ConflictText8(k)]
    /\ run' = NoRun
    /\ submitted' = TRUE
    /\ UNCHANGED <<variant, status, result, error, storage, req>>

\* part_008:52-57 and 85-90, the guard passes; request.json() is awaited
P8_Begin(s, k) ==
    /\ variant = "p008"
    /\ req[s].pc = "free"
    /\ ~Busy8
    /\ req' = [req EXCEPT ![s] = [pc |-> "body", kind |-> k, calls |-> <<>>]]
    /\ resp' = NoResp
    /\ run' = NoRun
    /\ submitted' = TRUE
    /\ UNCHANGED <<variant, status, result, error, storage>>

\* part_008:60-65 and 93-98 (400), 76-81 and 108-113 (500)
P8_BodyBad(s, msg, code) ==
    /\ variant = "p008"
    /\ req[s].pc = "body"
    /\ status' = "error"
    /\ result' = JobObj("none", Absent, TRUE, msg)
    /\ storage' = [storage EXCEPT !.status = "error"]
    /\ resp' = [code |-> code, op |-> "submit", body |-> result']
    /\ req' = [req EXCEPT ![s] = FreeSlot]
    /\ run' = NoRun
    /\ UNCHANGED <<variant, error, submitted>>

P8_BodyOkCompletes(s) ==
    /\ variant = "p008"
    /\ req[s].pc = "body"
    /\ status' = "complete"
    /\ result' = JobObj(FilesOf(req[s].kind), Absent, FALSE, "")
    /\ storage' = [storage EXCEPT !.status = "complete"]
    /\ resp' = [code |-> 202, op |-> "submit", body |-> [status |-> "started"]]
    /\ req' = [req EXCEPT ![s].pc = "run", ![s].calls = <<"prompt">>]
    /\ run' = NoRun
    /\ UNCHANGED <<variant, error, submitted>>

\* part_008:67-74 and 100-106: 'processing', and the model call is started
P8_BodyOk(s) ==
    /\ variant = "p008"
    /\ req[s].pc = "body"
    /\ status' = "processing"
    /\ result' = JobObj(FilesOf(req[s].kind), Absent, FALSE, "")
    /\ storage' = [storage EXCEPT !.status = "processing"]
    /\ resp' = [code |-> 202, op |-> "submit", body |-> [status |-> "started"]]
    /\ req' = [req EXCEPT ![s].pc = "run", ![s].calls = <<"prompt">>]
    /\ run' = NoRun
    /\ UNCHANGED <<variant, error, submitted>>

\* part_008:123-128 and 145-150: callLLM returns
processAnalysis_Returns(s, r) ==
    /\ variant = "p008"
    /\ req[s].pc = "run"
    /\ run' = Returned(s, "prompt", r)
    /\ result' = [result EXCEPT !.report = JSOf(r)]
    /\ status' = "complete"
    /\ storage' = [storage EXCEPT !.status = "complete", !.result = result']
    /\ resp' = NoResp
    /\ req' = [req EXCEPT ![s] = FreeSlot]
    /\ UNCHANGED <<variant, error, submitted>>

\* A processAnalysis that does not catch the failure of callLLM: the job is
\* left as it was.
processAnalysis_ThrowsUncaught(s, m) ==
    /\ variant = "p008"
    /\ req[s].pc = "run"
    /\ run' = Threw(s, "prompt", m)
    /\ resp' = NoResp
    /\ req' = [req EXCEPT ![s] = FreeSlot]
    /\ UNCHANGED <<variant, status, result, error, storage, submitted>>

\* part_008:130-134 and 152-156: callLLM throws
processAnalysis_Throws(s, m) ==
    /\ variant = "p008"
    /\ req[s].pc = "run"
    /\ run' = Threw(s, "prompt", m)
    /\ status' = "error"
    /\ result' = [result EXCEPT !.hasErr = TRUE, !.error = FailPrefix8(req[s].kind) \o m]
    /\ storage' = [storage EXCEPT !.status = "error"]
    /\ resp' = NoResp
    /\ req' = [req EXCEPT ![s] = FreeSlot]
    /\ UNCHANGED <<variant, error, submitted>>

(***************************************************************************)
(* part_004: handleProcessRequest rejects a submit unless the status is    *)
(* 'idle', and answers when the job has ended.                             *)
(***************************************************************************)
\* part_004:170, the guard
Busy4 == status # "idle"

\* part_004:170-172
P4_Conflict(s) ==
    /\ variant = "p004"
    /\ req[s].pc = "free"
    /\ Busy4
    /\ resp' = [code |-> 409, op |-> "submit", text |-> "Already processing a request."]
    /\ run' = NoRun
    /\ submitted' = TRUE
    /\ UNCHANGED <<variant, status, result, error, storage, req>>

\* part_004:170-178, the guard passes: 'processing', request.json() is awaited
P4_Begin(s) ==
    /\ variant = "p004"
    /\ req[s].pc = "free"
    /\ ~Busy4
    /\ status' = "processing"
    /\ storage' = [storage EXCEPT !.status = "processing"]
    /\ req' = [req EXCEPT ![s] = [pc |-> "body", kind |-> "analysis", calls |-> <<>>]]
    /\ resp' = NoResp
    /\ run' = NoRun
    /\ submitted' = TRUE
    /\ UNCHANGED <<variant, result, error>>

\* part_004:202-209, catch and finally
Fail4(s, msg) ==
    /\ status' = "error"
    /\ result' = JobObj("none", Absent, TRUE, msg)
    /\ storage' = [storage EXCEPT !.status = "error", !.result = result']
    /\ resp' = [code |-> 500, op |-> "submit", text |-> "Processing failed: " \o msg]
    /\ req' = [req EXCEPT ![s] = FreeSlot]
    /\ UNCHANGED <<variant, error, submitted>>

\* part_004:196-213, the report is rendered and the job is complete
Done4(s) ==
    /\ status' = "complete"
    /\ result' = JobObj("none", Html, FALSE, "")
    /\ storage' = [storage EXCEPT !.status = "complete", !.result = result']
    /\ resp' = [code |-> 200, op |-> "submit", body |-> result']
    /\ req' = [req EXCEPT ![s] = FreeSlot]
    /\ UNCHANGED <<variant, error, submitted>>

\* part_004:178-183 and 217-233: request.json() throws, a parameter is
\* missing, or callLLM throws before it calls the model
P4_BodyBad(s, msg) ==
    /\ variant = "p004"
    /\ req[s].pc = "body"
    /\ Fail4(s, msg)
    /\ run' = NoRun

\* part_004:245-255, provider Cloudflare: ai.run is called
P4_BodyOk(s) ==
    /\ variant = "p004"
    /\ req[s].pc = "body"
    /\ req' = [req EXCEPT ![s].pc = "run", ![s].calls = <<"prompt">>]
    /\ resp' = NoResp
    /\ run' = NoRun
    /\ UNCHANGED <<variant, status, result, error, storage, submitted>>

\* part_004:277-315, the other providers: a mock report, no model call
P4_BodyMock(s) ==
    /\ variant = "p004"
    /\ req[s].pc = "body"
    /\ Done4(s)
    /\ run' = NoRun

\* part_004:273-276, ai.run throws
P4_RunThrows(s, m) ==
    /\ variant = "p004"
    /\ req[s].pc = "run"
    /\ run' = Threw(s, "prompt", m)
    /\ Fail4(s, "Failed to call Cloudflare AI: " \o m)

\* part_004:257-272 and 196: JSON.parse(llmResponse) returns
Parses4(r) == r.shape # "none" /\ (r.shape = "string" => CanParse(r.text))

\* The value of JSON.parse(llmResponse).
ReportData4(r) == IF r.shape = "string" THEN JsonParse(r.text) ELSE JSOf(r)

\* part_004:320-347, renderReport returns: report.summary of null throws,
\* and so does .map of an anomalies_and_errors that is a non-empty string
Renders4(v) == v # Null /\ ~(v.t = "obj" /\ "anomalies_and_errors" \in v.keys /\ ~v.arr)

\* part_004:255-272 and 196-213, ai.run returns
P4_RunReturns(s, r) ==
    /\ variant = "p004"
    /\ req[s].pc = "run"
    /\ run' = Returned(s, "prompt", r)
    /\ IF Parses4(r) /\ Renders4(ReportData4(r))
       THEN Done4(s)
       ELSE Fail4(s, "Unexpected token in JSON")

(***************************************************************************)
(* What a step of the object on the request of slot s does to the call     *)
(* that sent it: the request is delivered, the response (if the step       *)
(* produces one) travels back, and the result of the job that the step     *)
(* completes is noted.  An anonymous request (no Backend) has no call.     *)
(***************************************************************************)
Observe(s) ==
    /\ req[s].pc = "free" => call[s].pc \in {"none", "posted"}
    /\ (call[s].pc = "posted" /\ req'[s].pc = "body") => req'[s].kind = call[s].kind
    /\ call' = IF call[s].pc = "none" THEN call
               ELSE [call EXCEPT ![s].pc = IF @ = "posted" THEN "waiting" ELSE @,
                                 ![s].reply = IF resp'.op = "submit" THEN resp' ELSE @]
    /\ made' = IF call[s].pc # "none" /\ status' = "complete" /\ req'[s].pc = "free"
               THEN [made EXCEPT ![s] = result']
               ELSE made
    /\ UNCHANGED <<polls, browserVars, workerVars, appVars>>

\* fetch of each version on the submit request of slot s, of a valid type:
\* the steps of the handlers, with the model's replies R and the messages M
\* of its failures.
handle(s, R, M) ==
    \/ \E k \in Kinds : P5_Begin(s, k) /\ Observe(s)
    \/ P5_BodyOk(s) /\ Observe(s)
    \/ P5_BodyThrows(s) /\ Observe(s)
    \/ \E m \in M : P5_RunThrows(s, m) /\ Observe(s)
    \/ P5_RunReturns(s, R) /\ Observe(s)
    \/ \E k \in Kinds : P7_Begin(s, k) /\ Observe(s)
    \/ P7_BodyOk(s) /\ Observe(s)
    \/ P7_BodyThrows(s) /\ Observe(s)
    \/ \E m \in M : P7_RunThrows(s, m) /\ Observe(s)
    \/ \E r \in R : P7_RunReturns(s, r) /\ Observe(s)
    \/ \E k \in Kinds : P8_Conflict(s, k) /\ Observe(s)
    \/ \E k \in Kinds : P8_Begin(s, k) /\ Observe(s)
    \/ P8_BodyBad(s, "Missing required parameters.", 400) /\ Observe(s)
    \/ P8_BodyBad(s, PreMsg, 500) /\ Observe(s)
    \/ P8_BodyOk(s) /\ Observe(s)
    \/ \E r \in R : processAnalysis_Returns(s, r) /\ Observe(s)
    \/ \E m \in M : processAnalysis_Throws(s, m) /\ Observe(s)
    \/ P4_Conflict(s) /\ Observe(s)
    \/ P4_Begin(s) /\ Observe(s)
    \/ P4_BodyBad(s, "Missing required parameters: pcap_data, file_name, or llm_model_key.") /\ Observe(s)
    \/ P4_BodyBad(s, PreMsg) /\ Observe(s)
    \/ P4_BodyOk(s) /\ Observe(s)
    \/ P4_BodyMock(s) /\ Observe(s)
    \/ \E m \in M : P4_RunThrows(s, m) /\ Observe(s)
    \/ \E r \in R : P4_RunReturns(s, r) /\ Observe(s)

fetch(R, M) == \E s \in Slots : handle(s, R, M)

\* The Backend sends type 'analysis' or 'comparison' (config.js:334 and 371):
\* only an anonymous request has an invalid type.
Next ==
    \/ handleStatusRequest /\ UNCHANGED <<backendVars, browserVars, workerVars, appVars>>
    \/ fetch(CoreReplies, UpstreamMsgs)
    \/ \E s \in Slots : P5_BodyBadType(s) /\ Observe(s)

Spec == Init /\ [][Next]_vars

\* The end of the model call of the request of slot s, in each version: the
\* call returns or throws and the handler runs to its end.
Finish(s) ==
    \/ \E m \in UpstreamMsgs : P5_RunThrows(s, m) /\ Observe(s)
    \/ P5_RunReturns(s, CoreReplies) /\ Observe(s)
    \/ \E m \in UpstreamMsgs : P7_RunThrows(s, m) /\ Observe(s)
    \/ \E r \in CoreReplies : P7_RunReturns(s, r) /\ Observe(s)
    \/ \E r \in CoreReplies : processAnalysis_Returns(s, r) /\ Observe(s)
    \/ \E m \in UpstreamMsgs : processAnalysis_Throws(s, m) /\ Observe(s)
    \/ \E m \in UpstreamMsgs : P4_RunThrows(s, m) /\ Observe(s)
    \/ \E r \in CoreReplies : P4_RunReturns(s, r) /\ Observe(s)

\* A model call in flight returns or throws; nothing is assumed of the
\* arrival of requests, status requests included.
SpecFair == Spec /\ \A s \in Slots : WF_vars(Finish(s))

(***************************************************************************)
(* The restart of the object: the runtime drops the instance when no       *)
(* request is in progress and constructs it again for the next request;    *)
(* the storage is kept.  The load that the constructor starts is taken to  *)
(* be complete before the next request is delivered.                       *)
(***************************************************************************)
\* this.state.storage.get(key): undefined for a key that was never put
StorageGet(key) == IF key \in DOMAIN storage THEN storage[key] ELSE Absent

\* A constructor that reads the keys that the handlers of part_005 put.
LoadedByKeys ==
    IF storage.status = Unset
    THEN [status |-> "idle", result |-> Obj({}, FALSE), error |-> NoError]
    ELSE [status |-> storage.status, result |-> storage.result, error |-> storage.error]

\* part_005:432-447 and part_007:606-621 get 'analysisState'; part_004:131-139
\* gets 'status' alone; part_008:14-20 gets nothing.
Loaded ==
    CASE variant \in {"p005", "p007"} ->
             LET s == StorageGet("analysisState")
             IN  IF s = Absent
                 THEN [status |-> "idle", result |-> Obj({}, FALSE), error |-> NoError]
                 ELSE [status |-> s.status, result |-> s.result, error |-> s.error]
      [] variant = "p004" ->
             [status |-> IF StorageGet("status") = Unset THEN "idle" ELSE StorageGet("status"),
              result |-> Obj({}, FALSE), error |-> NoError]
      [] OTHER -> [status |-> "idle", result |-> Obj({}, FALSE), error |-> NoError]

Restarted == [outcome |-> "restarted"]

constructor ==
    /\ \A s \in Slots : req[s].pc = "free"
    /\ status' = Loaded.status
    /\ result' = Loaded.result
    /\ error' = Loaded.error
    /\ resp' = NoResp
    /\ run' = Restarted
    /\ UNCHANGED <<variant, storage, req, submitted>>
    /\ UNCHANGED <<backendVars, browserVars, workerVars, appVars>>

NextRestart ==
    \/ Next
    \/ constructor

SpecRestart == Init /\ [][NextRestart]_vars

(***************************************************************************)
(* The parse of the model's reply in part_005, over every reply of the     *)
(* bounded domain: one request at a time on the part_005 object.           *)
(***************************************************************************)
InitParse == Init /\ variant = "p005"

NextParse ==
    \/ handleStatusRequest /\ UNCHANGED <<backendVars, browserVars, workerVars, appVars>>
    \/ \E k \in Kinds : P5_Begin(1, k) /\ Observe(1)
    \/ P5_BodyOk(1) /\ Observe(1)
    \/ P5_BodyBadType(1) /\ Observe(1)
    \/ P5_BodyThrows(1) /\ Observe(1)
    \/ \E m \in UpstreamMsgs : P5_RunThrows(1, m) /\ Observe(1)
    \/ P5_RunReturns(1, AllReplies) /\ Observe(1)

SpecParse == InitParse /\ [][NextParse]_vars

(***************************************************************************)
(* The Backend client: analyzePcap / comparePcaps post the job and hand    *)
(* over to pollStatus, which asks for the status on an interval timer.     *)
(* src/public/config.js posts to /api/analyze, the path of the part_005    *)
(* and part_008 objects; part_010 posts to /api/analyze/process, the path  *)
(* of the part_004 and part_007 objects.                                   *)
(***************************************************************************)
Client == IF variant \in {"p005", "p008"} THEN "config.js" ELSE "part_010"

\* setInterval(..., 1000): config.js:421, part_010:102
PollPeriod == 1000

ErrorOf(m) == [t |-> "Error", msg |-> m]

SyntaxMsg == "Unexpected token in JSON"
NetworkMsg == "Failed to fetch"
UnknownMsg == "An unknown error occurred during analysis."

\* `${response.status}`
CodeText(c) ==
    CASE c = 400 -> "400" [] c = 409 -> "409" [] c = 500 -> "500"
      [] c = 503 -> "503" [] OTHER -> "200"

\* b.error of a parsed body, "" where it is missing or falsy.
ErrorField(b) ==
    IF "t" \in DOMAIN b THEN (IF b.t = "job" /\ b.hasErr THEN b.error ELSE "")
    ELSE IF "error" \in DOMAIN b /\ b.error # NoError THEN b.error
    ELSE ""

\* b.status of a parsed body.
StatusField(b) == IF "status" \in DOMAIN b THEN b.status ELSE "undefined"

\* config.js:351 and 390 wrap the error; part_010:41 and 77 rethrow it.
CallPrefix(k) ==
    IF Client = "part_010" THEN ""
    ELSE IF k = "analysis" THEN "Analysis failed: " ELSE "Comparison failed: "

\* What analyzePcap throws on the response r of its POST, "" if it goes on
\* to pollStatus.  config.js:341-345 parses the body first; part_010:32-35
\* parses it only if the response is not OK.
SubmitError(r) ==
    LET ok == r.code \in 200..299
        json == "body" \in DOMAIN r
        said == IF json /\ ErrorField(r.body) # "" THEN ErrorField(r.body)
                ELSE "Server responded with status " \o CodeText(r.code)
    IN  IF Client = "config.js"
        THEN (IF ~json THEN SyntaxMsg ELSE IF ~ok THEN said ELSE "")
        ELSE (IF ok THEN "" ELSE IF ~json THEN SyntaxMsg ELSE said)

\* The steps of the client change nothing in the object.
ClientFrame ==
    /\ resp' = NoResp
    /\ run' = NoRun
    /\ UNCHANGED <<variant, status, result, error, storage, req, submitted>>
    /\ UNCHANGED <<workerVars, appVars>>

\* The steps of the Backend change nothing in the object nor on the page.
BackendFrame == ClientFrame /\ UNCHANGED browserVars

\* analyzePcap / comparePcaps: fetch(POST) with this.sessionId
Backend_post(c, k) ==
    /\ call[c].pc = "idle"
    /\ \A b \in 1..(c - 1) : call[b].pc # "idle"
    /\ call' = [call EXCEPT ![c].pc = "posted", ![c].kind = k]
    /\ UNCHANGED <<polls, made>>
    /\ BackendFrame

\* fetch rejects (network error): the catch of analyzePcap rethrows
Backend_postFails(c) ==
    /\ call[c].pc \in {"posted", "waiting"}
    /\ call' = [call EXCEPT ![c].pc = "rejected",
                            ![c].value = ErrorOf(CallPrefix(call[c].kind) \o NetworkMsg)]
    /\ UNCHANGED <<polls, made>>
    /\ BackendFrame

\* The response of the POST: rejected, or pollStatus sets its timer
Backend_posted(c) ==
    /\ call[c].pc = "waiting"
    /\ call[c].reply # NoResp
    /\ call' = IF SubmitError(call[c].reply) # ""
               THEN [call EXCEPT ![c].pc = "rejected",
                        ![c].value = ErrorOf(CallPrefix(call[c].kind) \o SubmitError(call[c].reply))]
               ELSE [call EXCEPT ![c].pc = "polling", ![c].timer = PollPeriod]
    /\ UNCHANGED <<polls, made>>
    /\ BackendFrame

\* The interval timer fires: the callback sends a status request
pollStatus_tick(c, i) ==
    /\ call[c].timer # 0
    /\ polls[c][i].st = "free"
    /\ \A h \in 1..(i - 1) : polls[c][h].st # "free"
    /\ polls' = [polls EXCEPT ![c][i] = [st |-> "sent"]]
    /\ UNCHANGED <<call, made>>
    /\ BackendFrame

\* The object answers a status request of the poll
pollStatus_served(c, i) ==
    /\ polls[c][i].st = "sent"
    /\ handleStatusRequest
    /\ polls' = [polls EXCEPT ![c][i] =
                    [st |-> "answered", ok |-> TRUE, json |-> TRUE, code |-> 200,
                     body |-> resp'.body]]
    /\ UNCHANGED <<call, made, browserVars, workerVars, appVars>>

\* A status request that the platform answers with a non-OK response
\* (JSON body or not), and one whose fetch rejects (network error).
Refused(j) ==
    [st |-> "answered", ok |-> FALSE, json |-> j, code |-> 503,
     body |-> [error |-> "Service Unavailable"]]
Lost == [st |-> "failed"]

PollOutcomeRetrying(p) ==
    IF p.st = "failed" \/ ~p.ok THEN [settle |-> "no", value |-> Absent]
    ELSE IF StatusField(p.body) = "complete"
    THEN [settle |-> "resolved", value |-> p.body.result]
    ELSE IF StatusField(p.body) = "error"
    THEN [settle |-> "rejected",
          value |-> ErrorOf(IF ErrorField(p.body) # "" THEN ErrorField(p.body)
                            ELSE UnknownMsg)]
    ELSE [settle |-> "no", value |-> Absent]

\* What the callback does with the outcome p of its status request:
\* config.js:398-420, part_010:85-101.
PollOutcome(p) ==
    LET thrown == IF p.st = "failed" THEN NetworkMsg
                  ELSE IF Client = "config.js" /\ ~p.ok
                  THEN "Status check failed: " \o CodeText(p.code)
                  ELSE IF ~p.json THEN SyntaxMsg
                  ELSE ""
    IN  IF thrown # "" THEN [settle |-> "rejected", value |-> ErrorOf(thrown)]
        ELSE IF StatusField(p.body) = "complete"
        THEN [settle |-> "resolved", value |-> p.body.result]
        ELSE IF StatusField(p.body) = "error"
        THEN [settle |-> "rejected",
              value |-> ErrorOf(IF ErrorField(p.body) # "" THEN ErrorField(p.body)
                                ELSE UnknownMsg)]
        ELSE [settle |-> "no", value |-> Absent]

\* resolve / reject of a promise: no effect once it is settled
Settle(c, o) ==
    IF o.settle = "no" THEN call
    ELSE IF call[c].pc = "polling"
    THEN [call EXCEPT ![c].pc = o.settle, ![c].value = o.value, ![c].timer = 0]
    ELSE [call EXCEPT ![c].timer = 0]

\* The rest of the callback, after the await of fetch, on an answer of
\* the object
pollStatus_callback(c, i) ==
    /\ polls[c][i].st = "answered"
    /\ call' = Settle(c, PollOutcome(polls[c][i]))
    /\ polls' = [polls EXCEPT ![c][i] = NoPoll]
    /\ UNCHANGED made
    /\ BackendFrame

\* The rest of the callback on a status request that failed as p
pollStatus_failed(c, i, p) ==
    /\ polls[c][i].st = "sent"
    /\ call' = Settle(c, PollOutcome(p))
    /\ polls' = [polls EXCEPT ![c][i] = NoPoll]
    /\ UNCHANGED made
    /\ BackendFrame

InitBackend ==
    /\ variant \in Variants
    /\ status = "idle"
    /\ result = Obj({}, FALSE)
    /\ error = NoError
    /\ storage = EmptyStorage
    /\ req = [s \in Slots |-> FreeSlot]
    /\ resp = NoResp
    /\ run = NoRun
    /\ submitted = FALSE
    /\ call = [c \in Slots |-> IdleCall]
    /\ polls = [c \in Slots |-> [i \in PollIds |-> NoPoll]]
    /\ made = [c \in Slots |-> Absent]
    /\ NoPage
    /\ OneObject
    /\ NoParse
    /\ NoApp
    /\ NoDom
    /\ NoPrompt

\* The replies and the failure of the model under the Backend client.
BackendReplies == {NoReply, Reply("string", <<"{", "F", "}">>)}
BackendMsgs == {"model overloaded"}

NextBackend ==
    \/ fetch(BackendReplies, BackendMsgs)
    \/ \E c \in Slots :
        \/ \E k \in Kinds : Backend_post(c, k)
        \/ Backend_postFails(c)
        \/ Backend_posted(c)
        \/ \E i \in PollIds :
            \/ pollStatus_tick(c, i)
            \/ pollStatus_served(c, i)
            \/ pollStatus_callback(c, i)
            \/ \E j \in BOOLEAN : pollStatus_failed(c, i, Refused(j))
            \/ pollStatus_failed(c, i, Lost)

SpecBackend == InitBackend /\ [][NextBackend]_vars

(***************************************************************************)
(* The button-driven client: src/public/script.js (and the script of       *)
(* part_005:244-332, part_002:55-126).  A click posts the file to          *)
(* /api/analyze or /api/compare under a session id of its own, the paths   *)
(* of the part_008 object, and pollStatus asks for the status, calling     *)
(* itself again through setTimeout.  The POST of the click is call 1; its  *)
(* status request is polls[1][1], which is "timer" while the setTimeout    *)
(* is pending.  page.fault names the failure that the click has met.       *)
(***************************************************************************)
\* setTimeout(..., 2000): script.js:84
RepollDelay == 2000

Shown(p, text) == [p EXCEPT !.pc = "ended", !.loading = FALSE, !.report = text]

\* script.js:89-118, the click, with or without a file selected
click(k, hasFile) ==
    /\ page.pc = "idle"
    /\ call[1].pc = "idle"
    /\ IF hasFile
       THEN /\ page' = [page EXCEPT !.pc = "submitting", !.loading = TRUE, !.report = ""]
            /\ call' = [call EXCEPT ![1].pc = "posted", ![1].kind = k]
       ELSE /\ page' = [page EXCEPT !.pc = "ended", !.loading = FALSE, !.report = "",
                                    !.message = "Please select a PCAP file for analysis.",
                                    !.fault = "no file"]
            /\ UNCHANGED call
    /\ UNCHANGED <<polls, made>>
    /\ ClientFrame

\* script.js:128-131, file.arrayBuffer(), btoa or fetch throws: the catch
click_catch ==
    /\ page.pc = "submitting"
    /\ call[1].pc \in {"posted", "waiting"}
    /\ page' = Shown([page EXCEPT !.fault = "submit threw"],
                     "An unexpected error occurred: " \o NetworkMsg)
    /\ call' = [call EXCEPT ![1].pc = "rejected"]
    /\ UNCHANGED <<polls, made>>
    /\ ClientFrame

\* script.js:120-131, the response of the POST
click_response ==
    /\ page.pc = "submitting"
    /\ call[1].pc = "waiting"
    /\ call[1].reply # NoResp
    /\ LET r == call[1].reply
           json == "body" \in DOMAIN r
       IN  IF ~json
           THEN /\ page' = Shown([page EXCEPT !.fault = "submit threw"],
                                 "An unexpected error occurred: " \o SyntaxMsg)
                /\ call' = [call EXCEPT ![1].pc = "rejected"]
                /\ UNCHANGED polls
           ELSE IF r.code \in 200..299
           THEN /\ page' = [page EXCEPT !.pc = "polling"]
                /\ call' = [call EXCEPT ![1].pc = "polling"]
                /\ polls' = [polls EXCEPT ![1][1] = [st |-> "sent"]]
           ELSE /\ page' = Shown([page EXCEPT !.fault = "submit not ok"],
                                 "Error from server: " \o
                                 (IF ErrorField(r.body) # "" THEN ErrorField(r.body)
                                  ELSE "Bad Request"))
                /\ call' = [call EXCEPT ![1].pc = "rejected"]
                /\ UNCHANGED polls
    /\ UNCHANGED made
    /\ ClientFrame

\* statusResult.result.report / .error can be read: result is an object
Readable(v) == v.t \notin {"null", "absent"}

\* script.js:75-85, pollStatus after its awaits, on an answer of the object.
\* The indicator is hidden before the report or the message is written; a
\* TypeError of statusResult.result.error ends pollStatus unhandled.
script_pollStatus ==
    /\ page.pc = "polling"
    /\ polls[1][1].st = "answered"
    /\ LET b == polls[1][1].body
       IN  IF StatusField(b) = "complete"
           THEN /\ page' = [page EXCEPT !.pc = "ended", !.loading = FALSE,
                               !.report = IF Readable(b.result) /\ b.result.t = "job"
                                             /\ b.result.report.t = "str"
                                          THEN "report" ELSE @]
                /\ polls' = [polls EXCEPT ![1][1] = NoPoll]
           ELSE IF StatusField(b) = "error"
           THEN /\ page' = [page EXCEPT !.pc = "ended", !.loading = FALSE,
                               !.fault = "job error",
                               !.report = IF Readable(b.result)
                                          THEN "Error: " \o ErrorField(b.result) ELSE @]
                /\ polls' = [polls EXCEPT ![1][1] = NoPoll]
           ELSE /\ polls' = [polls EXCEPT ![1][1] = [st |-> "timer", ms |-> RepollDelay]]
                /\ UNCHANGED page
    /\ UNCHANGED <<call, made>>
    /\ ClientFrame

\* script.js:84, the timeout fires: pollStatus sends the next status request
script_pollAgain ==
    /\ polls[1][1].st = "timer"
    /\ polls' = [polls EXCEPT ![1][1] = [st |-> "sent"]]
    /\ UNCHANGED <<call, made, page>>
    /\ ClientFrame

\* script.js:72-75, the status request fails as p.  fetch rejects, or
\* json() throws on a body that is not JSON: pollStatus was called without
\* await or catch (script.js:123), so the rejection is handled nowhere.
\* A non-OK response with a JSON body is read as a status that is not final.
script_pollFails(p) ==
    /\ page.pc = "polling"
    /\ polls[1][1].st = "sent"
    /\ IF p.st = "failed" \/ ~p.json
       THEN /\ page' = [page EXCEPT !.pc = "ended", !.fault = "status failed"]
            /\ polls' = [polls EXCEPT ![1][1] = NoPoll]
       ELSE /\ polls' = [polls EXCEPT ![1][1] = [st |-> "timer", ms |-> RepollDelay]]
            /\ UNCHANGED page
    /\ UNCHANGED <<call, made>>
    /\ ClientFrame

InitScript ==
    /\ variant = "p008"
    /\ status = "idle"
    /\ result = Obj({}, FALSE)
    /\ error = NoError
    /\ storage = EmptyStorage
    /\ req = [s \in Slots |-> FreeSlot]
    /\ resp = NoResp
    /\ run = NoRun
    /\ submitted = FALSE
    /\ call = [c \in Slots |-> IdleCall]
    /\ polls = [c \in Slots |-> [i \in PollIds |-> NoPoll]]
    /\ made = [c \in Slots |-> Absent]
    /\ NoPage
    /\ OneObject
    /\ NoParse
    /\ NoApp
    /\ NoDom
    /\ NoPrompt

NextScript ==
    \/ \E k \in Kinds, hasFile \in BOOLEAN : click(k, hasFile)
    \/ click_catch
    \/ click_response
    \/ \E k \in Kinds : P8_Begin(1, k) /\ Observe(1)
    \/ P8_BodyBad(1, "Missing required parameters.", 400) /\ Observe(1)
    \/ P8_BodyBad(1, PreMsg, 500) /\ Observe(1)
    \/ P8_BodyOk(1) /\ Observe(1)
    \/ \E r \in CoreReplies : processAnalysis_Returns(1, r) /\ Observe(1)
    \/ \E m \in UpstreamMsgs : processAnalysis_Throws(1, m) /\ Observe(1)
    \/ pollStatus_served(1, 1)
    \/ script_pollStatus
    \/ script_pollAgain
    \/ \E p \in {Lost, Refused(FALSE), Refused(TRUE)} : script_pollFails(p)

SpecScript == InitScript /\ [][NextScript]_vars

(***************************************************************************)
(* The Worker's fetch: a request to /api/ is handed to the Durable Object  *)
(* named by its session id (part_005:743-769, part_008:191-209,            *)
(* part_007:779-805, part_004:353-369).                                    *)
(***************************************************************************)
SessionIdShared(h) == "default"

\* request.headers.get("X-Session-ID") || "default"
SessionId(h) == IF h = NoHeader \/ h = "" THEN "default" ELSE h

\* The state of the object shown.
Shown5 ==
    [status |-> status, result |-> result, error |-> error,
     storage |-> storage, req |-> req, submitted |-> submitted]

\* env.ANALYSIS_OBJECT.get(idFromName(sessionId)): the next request carries
\* the header h and is for another object than the one shown, which is
\* put aside with its requests in flight.
Worker_fetch(h) ==
    /\ SessionId(h) \in Names
    /\ SessionId(h) # here
    /\ here' = SessionId(h)
    /\ others' = [others EXCEPT ![here] = Shown5, ![SessionId(h)] = Fresh]
    /\ status' = others[SessionId(h)].status
    /\ result' = others[SessionId(h)].result
    /\ error' = others[SessionId(h)].error
    /\ storage' = others[SessionId(h)].storage
    /\ req' = others[SessionId(h)].req
    /\ submitted' = others[SessionId(h)].submitted
    /\ resp' = NoResp
    /\ run' = NoRun
    /\ UNCHANGED <<variant, backendVars, browserVars, appVars>>

\* The replies and the failure of the model under the Worker.
WorkerReplies == {Reply("string", <<"{", "F", "}">>)}
WorkerMsgs == {"model overloaded"}

\* The part_005 or the part_008 object is deployed.
InitWorker == Init /\ variant \in {"p005", "p008"}

\* One request at a time on each object.
NextWorker ==
    \/ \E h \in Headers : Worker_fetch(h)
    \/ handleStatusRequest /\ UNCHANGED <<backendVars, browserVars, workerVars, appVars>>
    \/ \E k \in Kinds : P5_Begin(1, k) /\ Observe(1)
    \/ P5_BodyOk(1) /\ Observe(1)
    \/ P5_BodyBadType(1) /\ Observe(1)
    \/ P5_BodyThrows(1) /\ Observe(1)
    \/ \E m \in WorkerMsgs : P5_RunThrows(1, m) /\ Observe(1)
    \/ P5_RunReturns(1, WorkerReplies) /\ Observe(1)
    \/ \E k \in Kinds : P8_Begin(1, k) /\ Observe(1)
    \/ P8_BodyBad(1, "Missing required parameters.", 400) /\ Observe(1)
    \/ P8_BodyBad(1, PreMsg, 500) /\ Observe(1)
    \/ P8_BodyOk(1) /\ Observe(1)
    \/ \E r \in WorkerReplies : processAnalysis_Returns(1, r) /\ Observe(1)
    \/ \E m \in WorkerMsgs : processAnalysis_Throws(1, m) /\ Observe(1)

SpecWorker == InitWorker /\ [][NextWorker]_vars

(***************************************************************************)
(* PcapParser: validateFile and parse.  A file name is a sequence of       *)
(* characters; a file has a name, a size in bytes and a content that the   *)
(* parser never reads.                                                     *)
(***************************************************************************)
MaxStem == 1

supportedFormats ==
    << <<".", "p", "c", "a", "p">>, <<".", "p", "c", "a", "p", "n", "g">> >>
maxFileSize == 10 * 1024 * 1024

\* String.prototype.toLowerCase, on the characters of the names below
LowerOf(c) ==
    CASE c = "P" -> "p" [] c = "C" -> "c" [] c = "A" -> "a"
      [] c = "N" -> "n" [] c = "G" -> "g" [] c = "T" -> "t" [] c = "X" -> "x"
      [] OTHER -> c

\* A toLowerCase that leaves the name as it is.
toLowerCaseKept(str) == str

toLowerCase(str) == [i \in DOMAIN str |-> LowerOf(str[i])]

\* String.prototype.endsWith
endsWith(str, suffix) ==
    /\ Len(str) >= Len(suffix)
    /\ SubSeq(str, Len(str) - Len(suffix) + 1, Len(str)) = suffix

UnsupportedMsg == "Unsupported file format. Please use .pcap or .pcapng files."
TooLargeMsg == "File size exceeds the maximum limit of 10MB."
ReturnedTrue == [t |-> "returned", value |-> TRUE]
Thrown(m) == [t |-> "threw", message |-> m]

\* A validateFile that rejects a file of maxFileSize bytes.
validateFileStrict(file) ==
    LET isValidFormat == \E i \in DOMAIN supportedFormats :
                             endsWith(toLowerCase(file.name), supportedFormats[i])
    IN  IF ~isValidFormat THEN Thrown(UnsupportedMsg)
        ELSE IF file.size >= maxFileSize THEN Thrown(TooLargeMsg)
        ELSE ReturnedTrue

\* config.js:172-188
validateFile(file) ==
    LET isValidFormat == \E i \in DOMAIN supportedFormats :
                             endsWith(toLowerCase(file.name), supportedFormats[i])
    IN  IF ~isValidFormat THEN Thrown(UnsupportedMsg)
        ELSE IF file.size > maxFileSize THEN Thrown(TooLargeMsg)
        ELSE ReturnedTrue

\* The files handed to the parser: a stem of at most MaxStem characters and
\* an ending, sizes around the ceiling, and two contents.
StemChars == {"a", "."}
Stems == UNION {[1..n -> StemChars] : n \in 0..MaxStem}
Endings ==
    { <<>>,
      <<".", "p", "c", "a", "p">>, <<".", "P", "C", "A", "P">>,
      <<".", "P", "c", "a", "p">>, <<"p", "c", "a", "p">>,
      <<".", "p", "c", "a">>, <<".", "p", "c", "a", "p", "n">>,
      <<".", "p", "c", "a", "p", "n", "g">>, <<".", "P", "C", "A", "P", "N", "G">>,
      <<".", "p", "c", "a", "p", "N", "g">>,
      <<".", "p", "c", "a", "p", "n", "g", "x">>,
      <<".", "p", "c", "a", "p", ".", "t", "x", "t">>,
      <<".", "p", "c", "a", "p", " ">>,
      <<".", "t", "x", "t">>, <<".", "T", "X", "T">> }
Sizes == {0, 1, maxFileSize - 1, maxFileSize, maxFileSize + 1, 2 * maxFileSize}
Contents == {"capture", "text"}
Files == {[name |-> st \o e, size |-> z, content |-> c] :
             st \in Stems, e \in Endings, z \in Sizes, c \in Contents}

\* The parser keeps nothing from one call of parse to the next (its fields
\* are set in the constructor only): a behaviour has one call.
ParserFrame == UNCHANGED <<objectVars, backendVars, browserVars, workerVars, app, dom, prompt>>

\* config.js:190-198 with validateFile returning: mockParse is started
PcapParser_parse(file, cb) ==
    /\ parser.pc = "idle"
    /\ validateFile(file) = ReturnedTrue
    /\ parser' = [pc |-> "mock", file |-> file, checked |-> validateFile(file),
                  callback |-> cb, progress |-> 0, reported |-> <<>>]
    /\ ParserFrame

\* config.js:190-201 with validateFile throwing: the catch logs and rethrows
PcapParser_parseThrows(file, cb) ==
    /\ parser.pc = "idle"
    /\ validateFile(file) # ReturnedTrue
    /\ parser' = [pc |-> "rejected", file |-> file, checked |-> validateFile(file),
                  callback |-> cb, progress |-> 0, reported |-> <<>>]
    /\ ParserFrame

\* config.js:206-251: one tick of the interval of mockParse; the value that
\* the promise resolves with is not part of the parser's state here.
mockParse_tick ==
    /\ parser.pc = "mock"
    /\ parser' = [parser EXCEPT
                    !.progress = @ + 5,
                    !.reported = IF parser.callback THEN <<parser.progress + 5>> ELSE @,
                    !.pc = IF parser.progress + 5 >= 100 THEN "resolved" ELSE @]
    /\ ParserFrame

NextParser ==
    \/ \E file \in Files, cb \in BOOLEAN : PcapParser_parse(file, cb)
    \/ \E file \in Files, cb \in BOOLEAN : PcapParser_parseThrows(file, cb)
    \/ mockParse_tick

SpecParser == Init /\ [][NextParser]_vars

(***************************************************************************)
(* The report held by the application, value by value, and its export as   *)
(* JSON text.  An object is the sequence of its own members in insertion   *)
(* order; a text is a sequence of tokens, white space left out.            *)
(***************************************************************************)
MaxRaw == 1

Undef == [t |-> "undefined"]
NaN == [t |-> "nan"]
Num(n) == [t |-> "num", n |-> n]
Text(x) == [t |-> "text", x |-> x]
Member(k, v) == [key |-> k, val |-> v]
Plain(ms) == [t |-> "plain", members |-> ms]
List(xs) == [t |-> "list", items |-> xs]

\* The tokens of a JSON text: punctuation, "key": and a literal.
Punct(c) == [k |-> "punct", c |-> c]
KeyTok(name) == [k |-> "key", name |-> name]
Lit(v) == [k |-> "lit", v |-> v]
IsPunct(tok, c) == tok.k = "punct" /\ tok.c = c

RECURSIVE stringify(_)
RECURSIVE stringifyMembers(_)
RECURSIVE stringifyItems(_)

\* A JSON.stringify that writes every member and number as it is.
stringifyVerbatim(v) ==
    CASE v.t = "plain" -> <<Punct("{")>> \o stringifyMembers(v.members) \o <<Punct("}")>>
      [] v.t = "list" -> <<Punct("[")>> \o stringifyItems(v.items) \o <<Punct("]")>>
      [] OTHER -> <<Lit(v)>>

\* JSON.stringify(value, null, 2): a member whose value is undefined is left
\* out, an undefined item of an array and a NaN are written as null.
stringify(v) ==
    CASE v.t = "plain" ->
             <<Punct("{")>>
             \o stringifyMembers(SelectSeq(v.members, LAMBDA m : m.val.t # "undefined"))
             \o <<Punct("}")>>
      [] v.t = "list" -> <<Punct("[")>> \o stringifyItems(v.items) \o <<Punct("]")>>
      [] v.t \in {"nan", "undefined"} -> <<Lit(Null)>>
      [] OTHER -> <<Lit(v)>>

stringifyMembers(ms) ==
    IF ms = <<>> THEN <<>>
    ELSE <<KeyTok(ms[1].key)>> \o stringify(ms[1].val)
         \o (IF Len(ms) > 1 THEN <<Punct(",")>> ELSE <<>>)
         \o stringifyMembers(Tail(ms))

stringifyItems(xs) ==
    IF xs = <<>> THEN <<>>
    ELSE stringify(xs[1])
         \o (IF Len(xs) > 1 THEN <<Punct(",")>> ELSE <<>>)
         \o stringifyItems(Tail(xs))

RECURSIVE parseValue(_, _)
RECURSIVE parseMembers(_, _, _)
RECURSIVE parseItems(_, _, _)

\* JSON.parse of a text that JSON.stringify wrote, from token i on: the
\* value and the position after it.
parseValue(x, i) ==
    IF IsPunct(x[i], "{") THEN parseMembers(x, i + 1, <<>>)
    ELSE IF IsPunct(x[i], "[") THEN parseItems(x, i + 1, <<>>)
    ELSE [val |-> x[i].v, next |-> i + 1]

parseMembers(x, i, acc) ==
    IF IsPunct(x[i], "}") THEN [val |-> Plain(acc), next |-> i + 1]
    ELSE IF IsPunct(x[i], ",") THEN parseMembers(x, i + 1, acc)
    ELSE LET r == parseValue(x, i + 1)
         IN  parseMembers(x, r.next, Append(acc, Member(x[i].name, r.val)))

parseItems(x, i, acc) ==
    IF IsPunct(x[i], "]") THEN [val |-> List(acc), next |-> i + 1]
    ELSE IF IsPunct(x[i], ",") THEN parseItems(x, i + 1, acc)
    ELSE LET r == parseValue(x, i)
         IN  parseItems(x, r.next, Append(acc, r.val))

JSONparse(x) == parseValue(x, 1).val

(***************************************************************************)
(* The result of mockParse and the reports that startAnalysis and          *)
(* startComparison build from it (app.js); the report of the server-backed *)
(* page (part_005) is the parsed body of a status response.                *)
(***************************************************************************)
Protocols == <<"TCP", "UDP", "HTTP", "DNS", "TLS">>
\* Math.floor(Math.random() * 100), up to MaxRaw
RawValues == 0..MaxRaw
Draws == [1..Len(Protocols) -> RawValues]
PacketCounts == {500, 1499}

RECURSIVE SumTo(_, _)
SumTo(raw, n) == IF n = 0 THEN 0 ELSE raw[n] + SumTo(raw, n - 1)

\* config.js:223-226: Math.round((value / total) * 100); 0 / 0 is NaN
Normalize(raw, i) ==
    LET total == SumTo(raw, Len(Protocols))
    IN  IF total = 0 THEN NaN
        ELSE Num((200 * raw[i] + total) \div (2 * total))

\* config.js:228-247; the times, addresses and conversations of the result
\* are strings and integers like sourceIPs and packetCount
mockResult(raw, count) ==
    Plain(<< Member("packetCount", Num(count)),
             Member("protocolDistribution",
                    Plain([i \in 1..Len(Protocols) |-> Member(Protocols[i], Normalize(raw, i))])),
             Member("duration", Text("5.25")),
             Member("sourceIPs", List(<<Text("192.168.1.1")>>)) >>)

Member_of(v, k) ==
    LET hits == SelectSeq(v.members, LAMBDA m : m.key = k)
    IN  IF hits = <<>> THEN Undef ELSE hits[1].val

\* app.js:112-125
analysisResult(pcapData) ==
    Plain(<< Member("summary", Text("summary")),
             Member("anomalies_and_errors", List(<<Text("anomaly 1"), Text("anomaly 2")>>)),
             Member("sip_rtp_info", Text("none")),
             Member("important_timestamps_packets", Text("packet 10")),
             Member("protocol_distribution", Member_of(pcapData, "protocolDistribution")),
             Member("packetCount", Member_of(pcapData, "packetCount")),
             Member("duration", Member_of(pcapData, "duration")),
             Member("timeline", Member_of(pcapData, "timeline")) >>)

\* app.js:178-210
comparisonResult(pcapData1, pcapData2, same) ==
    Plain(<< Member("overall_comparison_summary", Text("summary")),
             Member("key_differences",
                    IF same THEN List(<<>>) ELSE List(<<Text("difference 1")>>)),
             Member("key_similarities", List(<<Text("similarity 1")>>)),
             Member("security_implications", Text("none")),
             Member("important_timestamps_packets", Text("N/A")),
             Member("file1", pcapData1),
             Member("file2", pcapData2) >>)

\* The reports that a status response can carry: a parsed JSON value.
ServerReports ==
    { Text("# Report"),
      Plain(<< Member("summary", Text("summary")),
               Member("protocol_distribution", Plain(<<Member("TCP", Num(100))>>)),
               Member("anomalies_and_errors", List(<<>>)),
               Member("sip_rtp_info", Null) >>),
      Plain(<< Member("raw_response", Text("not json")) >>) }

AppFrame == UNCHANGED <<objectVars, backendVars, browserVars, workerVars, parser, dom, prompt>>

\* app.js:89-139, the run to the end of a startAnalysis whose parse resolves
startAnalysis(raw, count) ==
    /\ app.currentAnalysisData = Null
    /\ app' = [app EXCEPT
                 !.client = "app.js",
                 !.currentAnalysisData =
                     Plain(<< Member("type", Text("analysis")),
                              Member("data", analysisResult(mockResult(raw, count))),
                              Member("fileName", Text("a.pcap")) >>)]
    /\ AppFrame

\* app.js:150-226, the run to the end of a startComparison whose parses
\* resolve; the second capture draws one value for all its protocols
startComparison(raw1, raw2, same) ==
    /\ app.currentAnalysisData = Null
    /\ app' = [app EXCEPT
                 !.client = "app.js",
                 !.currentAnalysisData =
                     Plain(<< Member("type", Text("comparison")),
                              Member("data", comparisonResult(mockResult(raw1, 500),
                                                              mockResult(raw2, 1499), same)),
                              Member("file1Name", Text("a.pcap")),
                              Member("file2Name", Text(IF same THEN "a.pcap" ELSE "b.pcap")) >>)]
    /\ AppFrame

\* part_005:259-275, the report of a complete job is kept
showResult(report, isComparison) ==
    /\ app.currentAnalysisData = Null
    /\ app' = [app EXCEPT
                 !.client = "part_005",
                 !.currentAnalysisData =
                     IF isComparison
                     THEN Plain(<< Member("data", report),
                                   Member("type", Text("comparison")),
                                   Member("file1Name", Text("a.pcap")),
                                   Member("file2Name", Text("b.pcap")) >>)
                     ELSE Plain(<< Member("data", report),
                                   Member("type", Text("analysis")),
                                   Member("fileName", Text("a.pcap")) >>)]
    /\ AppFrame

\* What exportJSON hands to JSON.stringify: the whole of currentAnalysisData
\* in app.js:269, its data in part_005:404 and part_006:169.
Exported ==
    IF app.client = "app.js" THEN app.currentAnalysisData
    ELSE Member_of(app.currentAnalysisData, "data")

\* app.js:266-280, part_005:402-414
exportJSON ==
    /\ app.currentAnalysisData # Null
    /\ app.exported = NoText
    /\ app' = [app EXCEPT !.exported = stringify(Exported)]
    /\ AppFrame

NextExport ==
    \/ \E raw \in Draws, count \in PacketCounts : startAnalysis(raw, count)
    \/ \E raw1 \in Draws, z \in RawValues, same \in BOOLEAN :
           startComparison(raw1, [i \in 1..Len(Protocols) |-> z], same)
    \/ \E report \in ServerReports, isComparison \in BOOLEAN :
           showResult(report, isComparison)
    \/ exportJSON

SpecExport == Init /\ [][NextExport]_vars

(***************************************************************************)
(* ReportRenderer in its three versions: config.js:433-565 (guarded),      *)
(* reportRenderer.js:9-73 and part_006:6-82.  The output is the list of    *)
(* the values put into the template, one for each field of the report      *)
(* that the template shows; postRender is not part of it.                  *)
(***************************************************************************)
Renderers == {"config.js", "reportRenderer.js", "part_006"}

TypeError == Thrown("TypeError")

\* !value
FalsyValue(v) ==
    \/ v.t \in {"undefined", "null", "nan"}
    \/ (v.t = "text" /\ v.x = "")
    \/ (v.t = "num" /\ v.n = 0)

\* value || fallback
OrElse(v, fallback) == IF FalsyValue(v) THEN fallback ELSE v

\* `${value}` in a template literal
Interp(v) ==
    CASE v.t = "undefined" -> Text("undefined")
      [] v.t = "null" -> Text("null")
      [] v.t = "nan" -> Text("NaN")
      [] OTHER -> v

\* value.length > 0 ? value.map(...).join('') : fallback, on a value that
\* is neither undefined nor null: a string has a length but no map
MapOrElse(v, fallback) ==
    IF v.t = "list" THEN (IF v.items # <<>> THEN v ELSE fallback)
    ELSE IF v.t = "text" /\ v.x # "" THEN TypeError
    ELSE fallback

\* part_006:7-9: data.anomalies_and_errors.length > 0 ? ... : '<p>N/A</p>'
ListPart(v, fallback) ==
    IF v.t \in {"undefined", "null"} THEN TypeError ELSE MapOrElse(v, fallback)

\* value && value.length > 0 ? ... : fallback, and (value || []).length > 0
GuardedListPart(v, fallback) ==
    IF FalsyValue(v) THEN fallback ELSE MapOrElse(v, fallback)

\* reportRenderer.js:20: data.packetCount.toLocaleString()
MethodOn(v) == IF v.t \in {"undefined", "null"} THEN TypeError ELSE v

\* reportRenderer.js:28: marked.parse(data.summary); what the library does
\* with an input that is not a string is either to throw or to render it
markedParse(v, lenient) ==
    IF v.t = "text" THEN v ELSE IF lenient THEN Interp(v) ELSE Thrown("marked")

\* The template with its parts, or the exception of the first part to throw.
Template(parts) ==
    LET thrown == SelectSeq(parts, LAMBDA m : m.val.t = "threw")
    IN  IF thrown # <<>> THEN thrown[1].val ELSE [t |-> "html", parts |-> parts]

renderAnalysisReport(renderer, data, lenient) ==
    LET field(k) == Member_of(data, k)
    IN  CASE renderer = "config.js" ->
                 Template(<< Member("summary", OrElse(field("summary"), Text("No summary available."))),
                             Member("packetCount", IF FalsyValue(field("packetCount")) THEN Text("N/A")
                                                   ELSE field("packetCount")),
                             Member("duration", IF FalsyValue(field("duration")) THEN Text("N/A")
                                                ELSE field("duration")),
                             Member("sip_rtp_info", OrElse(field("sip_rtp_info"), Text("N/A"))),
                             Member("anomalies_and_errors",
                                    GuardedListPart(field("anomalies_and_errors"),
                                                    Text("No anomalies detected."))),
                             Member("important_timestamps_packets",
                                    OrElse(field("important_timestamps_packets"), Text("N/A"))) >>)
          [] renderer = "reportRenderer.js" ->
                 Template(<< Member("packetCount", MethodOn(field("packetCount"))),
                             Member("duration", Interp(field("duration"))),
                             Member("summary", markedParse(field("summary"), lenient)),
                             Member("anomalies_and_errors",
                                    GuardedListPart(field("anomalies_and_errors"),
                                                    Text("No significant anomalies or errors found."))),
                             Member("sip_rtp_info", OrElse(field("sip_rtp_info"), Text("N/A"))),
                             Member("important_timestamps_packets",
                                    OrElse(field("important_timestamps_packets"), Text("N/A"))) >>)
          [] OTHER ->
                 Template(<< Member("anomalies_and_errors",
                                    ListPart(field("anomalies_and_errors"), Text("N/A"))),
                             Member("summary", Interp(field("summary"))),
                             Member("sip_rtp_info", Interp(field("sip_rtp_info"))),
                             Member("important_timestamps_packets",
                                    Interp(field("important_timestamps_packets"))) >>)

renderComparisonReport(renderer, data) ==
    LET field(k) == Member_of(data, k)
    IN  CASE renderer = "config.js" ->
                 Template(<< Member("overall_comparison_summary",
                                    OrElse(field("overall_comparison_summary"),
                                           Text("No comparison summary available."))),
                             Member("key_differences",
                                    GuardedListPart(field("key_differences"),
                                                    Text("No significant differences found."))),
                             Member("key_similarities",
                                    GuardedListPart(field("key_similarities"),
                                                    Text("No significant similarities found."))),
                             Member("security_implications",
                                    GuardedListPart(field("security_implications"),
                                                    Text("No security implications identified."))),
                             Member("important_timestamps_packets",
                                    OrElse(field("important_timestamps_packets"), Text("N/A"))) >>)
          [] renderer = "reportRenderer.js" ->
                 Template(<< Member("overall_comparison_summary",
                                    Interp(field("overall_comparison_summary"))),
                             Member("key_differences",
                                    GuardedListPart(field("key_differences"),
                                                    Text("No significant differences found."))),
                             Member("key_similarities",
                                    GuardedListPart(field("key_similarities"),
                                                    Text("No significant similarities found."))) >>)
          [] OTHER ->
                 Template(<< Member("key_differences", ListPart(field("key_differences"), Text("N/A"))),
                             Member("key_similarities", ListPart(field("key_similarities"), Text("N/A"))),
                             Member("security_implications",
                                    ListPart(field("security_implications"), Text("N/A"))),
                             Member("overall_comparison_summary",
                                    Interp(field("overall_comparison_summary"))),
                             Member("important_timestamps_packets",
                                    Interp(field("important_timestamps_packets"))) >>)

\* The report objects: for each field one of its values, or no such member.
AnalysisFields ==
    << "summary", "anomalies_and_errors", "sip_rtp_info",
       "important_timestamps_packets", "packetCount", "duration" >>
ComparisonFields ==
    << "overall_comparison_summary", "key_differences", "key_similarities",
       "security_implications", "important_timestamps_packets" >>

ValuesOf(k) ==
    CASE k \in {"anomalies_and_errors", "key_differences"} ->
             {List(<<>>), List(<<Text("item 1")>>), Text("none found")}
      [] k = "key_similarities" -> {List(<<Text("item 1")>>)}
      [] k = "security_implications" -> {List(<<Text("item 1")>>), Text("none")}
      [] k = "sip_rtp_info" -> {Text("none"), Null}
      [] k = "packetCount" -> {Num(500)}
      [] OTHER -> {Text("text")}

ReportsOver(fields) ==
    { LET all == [i \in DOMAIN fields |-> Member(fields[i], pick[i])]
      IN  Plain(SelectSeq(all, LAMBDA m : m.val.t # "undefined")) :
      pick \in { f \in [DOMAIN fields -> UNION {ValuesOf(fields[i]) : i \in DOMAIN fields}
                                             \cup {Undef}] :
                 \A i \in DOMAIN fields : f[i] \in ValuesOf(fields[i]) \cup {Undef} } }

\* part_005:672-678
RawResponse == Plain(<< Member("raw_response", Text("not json")) >>)

AnalysisReports == ReportsOver(AnalysisFields) \cup {RawResponse}
ComparisonReports == ReportsOver(ComparisonFields) \cup {RawResponse}

\* app.js:134 and part_005:266: the report is rendered
ReportRenderer_renderAnalysisReport(renderer, data, lenient) ==
    /\ app.rendered = Absent
    /\ app' = [app EXCEPT !.rendered =
                 [by |-> renderer, type |-> "analysis", data |-> data,
                  out |-> renderAnalysisReport(renderer, data, lenient)]]
    /\ AppFrame

\* app.js:220 and part_005:254
ReportRenderer_renderComparisonReport(renderer, data) ==
    /\ app.rendered = Absent
    /\ app' = [app EXCEPT !.rendered =
                 [by |-> renderer, type |-> "comparison", data |-> data,
                  out |-> renderComparisonReport(renderer, data)]]
    /\ AppFrame

NextRender ==
    \/ \E renderer \in Renderers, data \in AnalysisReports, lenient \in BOOLEAN :
           ReportRenderer_renderAnalysisReport(renderer, data, lenient)
    \/ \E renderer \in Renderers, data \in ComparisonReports :
           ReportRenderer_renderComparisonReport(renderer, data)

SpecRender == Init /\ [][NextRender]_vars

(***************************************************************************)
(* PCAPAnalyzerApp (app.js) with its buttons: startAnalysis and            *)
(* startComparison are async, so a second run can start while the parse    *)
(* of the first is awaited.  runs lists the runs started, in order.        *)
(***************************************************************************)
MaxRuns == 2

\* The report that run i builds, and what the renderer is given of it.
ReportOf(i, type) ==
    LET raw == [n \in 1..Len(Protocols) |-> 1]
    IN  IF type = "analysis"
        THEN Plain(<< Member("type", Text("analysis")),
                      Member("data", analysisResult(mockResult(raw, 500 + i))),
                      Member("fileName", Text("a.pcap")) >>)
        ELSE Plain(<< Member("type", Text("comparison")),
                      Member("data", comparisonResult(mockResult(raw, 500 + i),
                                                      mockResult(raw, 500 + i), FALSE)),
                      Member("file1Name", Text("a.pcap")),
                      Member("file2Name", Text("b.pcap")) >>)

\* What reportContainer.innerHTML was rendered from.
RenderedFrom(report) ==
    [type |-> Member_of(report, "type"), data |-> Member_of(report, "data"),
     names |-> IF Member_of(report, "type") = Text("analysis")
               THEN <<Member_of(report, "fileName")>>
               ELSE <<Member_of(report, "file1Name"), Member_of(report, "file2Name")>>]

\* A start that leaves the export buttons as they are.
app_startKeepsButtons(type, valid) ==
    /\ Len(app.runs) < MaxRuns
    /\ app' = [app EXCEPT
                 !.client = "app.js",
                 !.runs = Append(@, [type |-> type,
                                     pc |-> IF valid THEN "parsing" ELSE "failed"]),
                 !.loadingIndicator = valid,
                 !.reportContainer = Absent]
    /\ AppFrame

\* app.js:89-110 and 150-170: a click with its files selected, up to the
\* await of parse; a file that validateFile rejects makes parse reject at
\* once and the catch (app.js:141-146, 228-233) runs before any other event
app_start(type, valid) ==
    /\ Len(app.runs) < MaxRuns
    /\ app' = [app EXCEPT
                 !.client = "app.js",
                 !.runs = Append(@, [type |-> type,
                                     pc |-> IF valid THEN "parsing" ELSE "failed"]),
                 !.loadingIndicator = valid,
                 !.reportContainer = Absent,
                 !.exportButtons = "hidden"]
    /\ AppFrame

\* app.js:167-174: the parse of the first file of a comparison resolves
app_parsed(i) ==
    /\ app.runs[i] = [type |-> "comparison", pc |-> "parsing"]
    /\ app' = [app EXCEPT !.runs[i].pc = "parsing2"]
    /\ AppFrame

Parsing(i) ==
    \/ app.runs[i] = [type |-> "analysis", pc |-> "parsing"]
    \/ app.runs[i] = [type |-> "comparison", pc |-> "parsing2"]

\* app.js:112-139 and 176-226: the last parse resolves and the run goes to
\* its end
app_finish(i) ==
    /\ Parsing(i)
    /\ app' = [app EXCEPT
                 !.runs[i].pc = "done",
                 !.currentAnalysisData = ReportOf(i, app.runs[i].type),
                 !.reportContainer = RenderedFrom(ReportOf(i, app.runs[i].type)),
                 !.loadingIndicator = FALSE,
                 !.exportButtons = "visible"]
    /\ AppFrame

\* app.js:127-146: the renderer throws (rendered = FALSE) or postRender
\* throws (rendered = TRUE) after currentAnalysisData is set; the catch hides
\* the indicator and the buttons
app_finishThrows(i, rendered) ==
    /\ Parsing(i)
    /\ app' = [app EXCEPT
                 !.runs[i].pc = "failed",
                 !.currentAnalysisData = ReportOf(i, app.runs[i].type),
                 !.reportContainer = IF rendered
                                     THEN RenderedFrom(ReportOf(i, app.runs[i].type))
                                     ELSE @,
                 !.loadingIndicator = FALSE,
                 !.exportButtons = "hidden"]
    /\ AppFrame

\* app.js:266-280: a click on the JSON export button, which is there to be
\* clicked when the buttons are visible
app_exportJSON ==
    /\ app.exportButtons = "visible"
    /\ exportJSON

NextApp ==
    \/ \E type \in Kinds, valid \in BOOLEAN : app_start(type, valid)
    \/ \E i \in 1..MaxRuns : i <= Len(app.runs) /\ app_parsed(i)
    \/ \E i \in 1..MaxRuns : i <= Len(app.runs) /\ app_finish(i)
    \/ \E i \in 1..MaxRuns, rendered \in BOOLEAN :
           i <= Len(app.runs) /\ app_finishThrows(i, rendered)
    \/ app_exportJSON

SpecApp == Init /\ [][NextApp]_vars

(***************************************************************************)
(* The button-driven client (script.js) with several jobs: every click     *)
(* makes a session id of its own ('pcap-analysis-' + Date.now()), so every *)
(* job has its own object, which answers its first submit with 202 unless  *)
(* the body is refused.  jobs lists the jobs in the order of their clicks. *)
(***************************************************************************)
MaxJobs == 2

DomFrame == UNCHANGED <<objectVars, backendVars, browserVars, workerVars, parser, app, prompt>>

Shows(j, what) == [of |-> j, what |-> what]

\* script.js:89-118 and 135-166: a click with its files selected, up to the
\* fetch of the POST
jobs_click ==
    /\ Len(dom.jobs) < MaxJobs
    /\ dom' = [dom EXCEPT
                 !.jobs = Append(@, [pc |-> "posted", server |-> "idle"]),
                 !.reportContainer = Shows(NoJob, "empty"),
                 !.loadingIndicator = TRUE]
    /\ DomFrame

\* script.js:120-123: the POST is answered 202 and pollStatus is called
jobs_accepted(j) ==
    /\ dom.jobs[j].pc = "posted"
    /\ dom' = [dom EXCEPT !.jobs[j] = [pc |-> "polling", server |-> "processing"]]
    /\ DomFrame

\* script.js:124-131: the POST is answered with an error, or fails
jobs_refused(j) ==
    /\ dom.jobs[j].pc = "posted"
    /\ dom' = [dom EXCEPT
                 !.jobs[j] = [pc |-> "failed", server |-> "error"],
                 !.reportContainer = Shows(j, "error"),
                 !.loadingIndicator = FALSE]
    /\ DomFrame

\* part_008:116-135: the job of the session ends
jobs_finish(j, outcome) ==
    /\ dom.jobs[j].server = "processing"
    /\ dom' = [dom EXCEPT !.jobs[j].server = outcome]
    /\ DomFrame

\* script.js:71-86: pollStatus gets the status of the session of job j
jobs_pollStatus(j) ==
    /\ dom.jobs[j].pc = "polling"
    /\ dom.jobs[j].server \in {"complete", "error"}
    /\ dom' = [dom EXCEPT
                 !.jobs[j].pc = "shown",
                 !.reportContainer =
                     Shows(j, IF dom.jobs[j].server = "complete" THEN "report" ELSE "error"),
                 !.loadingIndicator = FALSE]
    /\ DomFrame

\* script.js:83-85: the job is still processing; pollStatus is set to run
\* again after 2 s and nothing is shown
jobs_pollAgain(j) ==
    /\ dom.jobs[j].pc = "polling"
    /\ dom.jobs[j].server = "processing"
    /\ UNCHANGED dom
    /\ DomFrame

NextJobs ==
    \/ jobs_click
    \/ \E j \in 1..MaxJobs : j <= Len(dom.jobs) /\ jobs_accepted(j)
    \/ \E j \in 1..MaxJobs : j <= Len(dom.jobs) /\ jobs_refused(j)
    \/ \E j \in 1..MaxJobs, outcome \in {"complete", "error"} :
           j <= Len(dom.jobs) /\ jobs_finish(j, outcome)
    \/ \E j \in 1..MaxJobs : j <= Len(dom.jobs) /\ jobs_pollStatus(j)
    \/ \E j \in 1..MaxJobs : j <= Len(dom.jobs) /\ jobs_pollAgain(j)

SpecJobs == Init /\ [][NextJobs]_vars

(***************************************************************************)
(* The job-ID client (src/src/public/script.js): startJob posts the job    *)
(* and keeps its id in currentJobId; pollForStatus sets an interval timer  *)
(* that asks for the status of currentJobId.  started lists the status of  *)
(* the jobs by id; intervals lists the timers set, each "set" or "cleared".*)
(***************************************************************************)
MaxTimers == 2

Active == {t \in DOMAIN dom.intervals : dom.intervals[t] = "set"}

\* script.js:140-168 up to setInterval
pollForStatus(d) == [d EXCEPT !.intervals = Append(@, "set")]

\* script.js:104-128 and 209-216: a click on a start button with its files
\* selected, answered with a job id
startJob ==
    /\ Len(dom.started) < MaxJobs
    /\ Len(dom.intervals) < MaxTimers
    /\ dom' = pollForStatus([dom EXCEPT
                 !.loadingIndicator = TRUE,
                 !.reportOutput = Shows(NoJob, "empty"),
                 !.started = Append(@, "processing"),
                 !.currentJobId = Len(dom.started) + 1])
    /\ DomFrame

\* script.js:129-136: the POST is answered with an error, or fails
startJob_fails ==
    /\ dom' = [dom EXCEPT
                 !.loadingIndicator = FALSE,
                 !.reportOutput = Shows(NoJob, "empty")]
    /\ dom' # dom
    /\ DomFrame

\* The job ends on the server.
job_ends(id, outcome) ==
    /\ dom.started[id] = "processing"
    /\ dom' = [dom EXCEPT !.started[id] = outcome]
    /\ DomFrame

\* script.js:224-230: Check Status
checkStatusBtn_click ==
    /\ dom.currentJobId # NoJob
    /\ Len(dom.intervals) < MaxTimers
    /\ dom' = pollForStatus(dom)
    /\ DomFrame

\* script.js:141-160: the callback of timer t, the job complete or failed
interval_ends(t) ==
    /\ dom.intervals[t] = "set"
    /\ dom.started[dom.currentJobId] \in {"complete", "failed"}
    /\ dom' = [dom EXCEPT
                 !.intervals[t] = "cleared",
                 !.loadingIndicator = FALSE,
                 !.reportOutput =
                     Shows(dom.currentJobId,
                           IF dom.started[dom.currentJobId] = "complete" THEN "report" ELSE "error")]
    /\ DomFrame

\* script.js:161-166: the status request of timer t fails
interval_catch(t) ==
    /\ dom.intervals[t] = "set"
    /\ dom' = [dom EXCEPT
                 !.intervals[t] = "cleared",
                 !.loadingIndicator = FALSE,
                 !.reportOutput = Shows(NoJob, "error")]
    /\ DomFrame

\* script.js:141-151: the job is still processing; the timer stays set
interval_again(t) ==
    /\ dom.intervals[t] = "set"
    /\ dom.started[dom.currentJobId] = "processing"
    /\ UNCHANGED dom
    /\ DomFrame

NextJobId ==
    \/ startJob
    \/ startJob_fails
    \/ \E id \in 1..MaxJobs, outcome \in {"complete", "failed"} :
           id <= Len(dom.started) /\ job_ends(id, outcome)
    \/ checkStatusBtn_click
    \/ \E t \in 1..MaxTimers : t <= Len(dom.intervals) /\ interval_ends(t)
    \/ \E t \in 1..MaxTimers : t <= Len(dom.intervals) /\ interval_catch(t)
    \/ \E t \in 1..MaxTimers : t <= Len(dom.intervals) /\ interval_again(t)

SpecJobId == Init /\ [][NextJobId]_vars

(***************************************************************************)
(* formatPrompt of the AnalysisObject.  A string is a sequence of pieces:  *)
(* Chars is text without a placeholder, Placeholder(n) is the text {n},    *)
(* and Matched is the text $& , which String.prototype.replace expands to  *)
(* the matched substring when it occurs in the replacement.                *)
(***************************************************************************)
Chars(x) == [p |-> "chars", x |-> x]
Placeholder(n) == [p |-> "placeholder", n |-> n]
Matched == [p |-> "$&"]

\* config.js:73-80
analysis_pcap_explanation_template ==
    << Chars("You are an expert ... PCAP Snippet ("), Placeholder("file_name"),
       Chars("):"), Placeholder("pcap_data_snippet"), Chars("") >>

\* config.js:114-124
comparison_pcap_explanation_template ==
    << Chars("You are an expert ... labeled "), Placeholder("label1"),
       Chars(" and "), Placeholder("label2"),
       Chars(". ... PCAP 1 Snippet ("), Placeholder("label1"),
       Chars("):"), Placeholder("pcap_data_snippet1"),
       Chars("--- PCAP 2 Snippet ("), Placeholder("label2"),
       Chars("):"), Placeholder("pcap_data_snippet2"), Chars("") >>

\* The text after the template: the instruction and the schema.
SchemaInstruction == << Chars("IMPORTANT: Respond with ONLY a single JSON object ...") >>

\* String.prototype.replace with a string pattern: the first occurrence only;
\* $& in the replacement stands for the matched text.
replace(str, n, value) ==
    LET at == {i \in DOMAIN str : str[i] = Placeholder(n)}
    IN  IF at = {} THEN str
        ELSE LET i == CHOOSE k \in at : \A m \in at : k <= m
                 put == [k \in DOMAIN value |->
                            IF value[k] = Matched THEN Placeholder(n) ELSE value[k]]
             IN  SubSeq(str, 1, i - 1) \o put \o SubSeq(str, i + 1, Len(str))

\* part_005:724-739
formatPrompt(type, data) ==
    IF type = "analysis"
    THEN replace(replace(analysis_pcap_explanation_template,
                         "pcap_data_snippet", data.pcap_data_snippet),
                 "file_name", data.file_name) \o SchemaInstruction
    ELSE IF type = "comparison"
    THEN replace(replace(replace(replace(comparison_pcap_explanation_template,
                                         "pcap_data_snippet1", data.pcap_data_snippet1),
                                 "pcap_data_snippet2", data.pcap_data_snippet2),
                         "label1", data.label1),
                 "label2", data.label2) \o SchemaInstruction
    ELSE << >>

\* part_005:716-721: extractPcapSnippet gives hexadecimal digits
Snippets == { << Chars("") >>, << Chars("d4c3b2a1") >> }

\* The file names of the request body: any string, or none (undefined, which
\* replace turns into the text undefined)
FileNames == { << Chars("a.pcap") >>, << Chars("b.pcap") >>, << Chars("undefined") >>,
               << Placeholder("label2"), Chars(".pcap") >>, << Matched >> }

PlainNames == { << Chars("a.pcap") >>, << Chars("b.pcap") >>, << Chars("undefined") >> }

\* part_005:518-528
promptForAnalysis ==
    \E snippet \in Snippets, name \in FileNames :
        LET data == [pcap_data_snippet |-> snippet, file_name |-> name]
        IN  /\ prompt' = [type |-> "analysis", data |-> data,
                          text |-> formatPrompt("analysis", data)]
            /\ UNCHANGED <<objectVars, backendVars, browserVars, workerVars, parser, app, dom>>

\* part_005:530-545
promptForComparison ==
    \E s1 \in Snippets, s2 \in Snippets, n1 \in FileNames, n2 \in FileNames :
        LET data == [pcap_data_snippet1 |-> s1, pcap_data_snippet2 |-> s2,
                     label1 |-> n1, label2 |-> n2]
        IN  /\ prompt' = [type |-> "comparison", data |-> data,
                          text |-> formatPrompt("comparison", data)]
            /\ UNCHANGED <<objectVars, backendVars, browserVars, workerVars, parser, app, dom>>

NextPrompt == promptForAnalysis \/ promptForComparison

SpecPrompt == Init /\ [][NextPrompt]_vars

(***************************************************************************)
(* The message box (part_005:185-204, part_006:115-130).  now is the time  *)
(* in seconds; timeouts lists the setTimeout calls of showMessage, each    *)
(* with the time it is due and whether it is still pending.  messageBox    *)
(* holds the number of the message last shown and the time it was shown.   *)
(***************************************************************************)
MaxMessages == 2
MaxNow == 8
HideAfter == 5

Pending == {k \in DOMAIN dom.timeouts : dom.timeouts[k].pending}

\* part_005:199-201, part_006:128-130
hideMessage(d) == [d EXCEPT !.messageBox.display = "none"]

\* part_005:185-196, part_006:115-126
showMessage ==
    /\ Len(dom.timeouts) < MaxMessages
    /\ dom' = [dom EXCEPT
                 !.messageBox = [display |-> "flex",
                                 message |-> Len(dom.timeouts) + 1,
                                 since |-> dom.now],
                 !.timeouts = Append(@, [due |-> dom.now + HideAfter, pending |-> TRUE])]
    /\ DomFrame

\* part_005:195, part_006:125: the callback of setTimeout
timeout_fires(k) ==
    /\ dom.timeouts[k].pending
    /\ dom.timeouts[k].due <= dom.now
    /\ dom' = [hideMessage(dom) EXCEPT !.timeouts[k].pending = FALSE]
    /\ DomFrame

\* part_005:204, part_006:110
messageClose_click ==
    /\ dom.messageBox.display = "flex"
    /\ dom' = hideMessage(dom)
    /\ DomFrame

\* A second passes; a timeout that is due fires before the next second.
second_passes ==
    /\ dom.now < MaxNow
    /\ \A k \in Pending : dom.timeouts[k].due > dom.now
    /\ dom' = [dom EXCEPT !.now = @ + 1]
    /\ DomFrame

NextMessage ==
    \/ showMessage
    \/ \E k \in 1..MaxMessages : k <= Len(dom.timeouts) /\ timeout_fires(k)
    \/ messageClose_click
    \/ second_passes

SpecMessage == Init /\ [][NextMessage]_vars

(***************************************************************************)
(* startAnalysis of the PCAPAnalyzerApp that calls fetchLlmReport          *)
(* (part_007:118-168).  analysis.passed lists the calls of updateProgress  *)
(* of the run, each with the percentage and the caller.  The PcapParser    *)
(* that the application imports is either the one that follows it in       *)
(* part_007 (validateFile and readAsBase64, no parse) or one with parse    *)
(* and mockParse (config.js:166-251), whose callback reports 5, 10, ... .  *)
(***************************************************************************)
ParserKinds == {"readAsBase64", "mockParse"}

Passed(by, percentage) == [by |-> by, percentage |-> percentage]

\* part_007:283-286
updateProgress(d, by, percentage) ==
    [d EXCEPT !.analysis.passed = Append(@, Passed(by, percentage))]

\* part_006:115-126 as called from startAnalysis
showMessageIn(d) ==
    [d EXCEPT !.messageBox = [display |-> "flex",
                              message |-> Len(d.timeouts) + 1,
                              since |-> d.now],
              !.timeouts = Append(@, [due |-> d.now + HideAfter, pending |-> TRUE])]

\* part_007:160-164, the catch of startAnalysis
llm_caught(d) ==
    showMessageIn([d EXCEPT !.loadingIndicator = FALSE, !.analysis.pc = "failed"])

\* part_007:118-129: no file is selected
llm_startAnalysis_noFile ==
    /\ dom.analysis.pc = "idle"
    /\ Len(dom.timeouts) < MaxMessages
    /\ dom' = showMessageIn(hideMessage(dom))
    /\ DomFrame

\* part_007:118-135: the run up to the await of parse; without a parse
\* method the call throws, and so does parse when validateFile rejects the file
llm_startAnalysis(kind, valid) ==
    /\ dom.analysis.pc = "idle"
    /\ Len(dom.timeouts) < MaxMessages
    /\ LET begun == updateProgress(
                        [hideMessage(dom) EXCEPT !.loadingIndicator = TRUE,
                                                 !.analysis.parse = kind],
                        "startAnalysis", 10)
       IN  dom' = IF kind = "mockParse" /\ valid
                  THEN [begun EXCEPT !.analysis.pc = "parsing"]
                  ELSE llm_caught(begun)
    /\ DomFrame

\* config.js:206-211: one tick of the interval of mockParse, and at 100 the
\* continuation of startAnalysis up to the await of fetchLlmReport
\* (part_007:135-139)
llm_parse_tick ==
    /\ dom.analysis.pc = "parsing"
    /\ LET progress == dom.analysis.progress + 5
           ticked == updateProgress([dom EXCEPT !.analysis.progress = progress],
                                    "parse", progress)
       IN  dom' = IF progress >= 100
                  THEN updateProgress([ticked EXCEPT !.analysis.pc = "fetching"],
                                      "startAnalysis", 80)
                  ELSE ticked
    /\ DomFrame

\* part_007:139-158: fetchLlmReport resolves and the report is rendered
llm_fetched ==
    /\ dom.analysis.pc = "fetching"
    /\ dom' = showMessageIn(
                  [updateProgress(updateProgress(dom, "startAnalysis", 90),
                                  "startAnalysis", 100)
                     EXCEPT !.loadingIndicator = FALSE, !.analysis.pc = "done"])
    /\ DomFrame

\* part_007:139-164: fetchLlmReport rejects, or the renderer throws on the
\* report (rendered: the failure comes after updateProgress(90))
llm_fetchThrows(rendered) ==
    /\ dom.analysis.pc = "fetching"
    /\ dom' = llm_caught(IF rendered THEN updateProgress(dom, "startAnalysis", 90) ELSE dom)
    /\ DomFrame

NextProgress ==
    \/ llm_startAnalysis_noFile
    \/ \E kind \in ParserKinds, valid \in BOOLEAN : llm_startAnalysis(kind, valid)
    \/ llm_parse_tick
    \/ llm_fetched
    \/ \E rendered \in BOOLEAN : llm_fetchThrows(rendered)

SpecProgress == Init /\ [][NextProgress]_vars

(***************************************************************************)
(* The claims.                                                             *)
(***************************************************************************)
\* A value is populated: not null and, if an object, not empty.
Populated(v) == v # Null /\ v # Absent /\ (IsObject(v) => Keys(v) # {})

\* The result has the five keys of the schema and anomalies_and_errors is an array.
HasSchema(v) == v.t = "obj" /\ SchemaKeys \subseteq v.keys /\ v.arr

\* The model calls in flight.
InFlight == {s \in Slots : req[s].pc = "run"}

\* C1 (as claimed, for the part_005 object, which has both fields): in every
\* reachable state the result is populated iff the status is 'complete', and
\* the error is populated iff the status is 'error'.
C1_ResultIffComplete ==
    variant = "p005" =>
        /\ Populated(result) <=> status = "complete"
        /\ (error # NoError /\ error # "") <=> status = "error"

SubmitArrives ==
    \/ \E s \in Slots : req[s].pc = "free" /\ req'[s].pc = "body"
    \/ resp'.op = "submit" /\ resp'.code = 409

\* C3 (as claimed): a submit that arrives while the status is 'processing' is
\* answered 409, is not admitted (so it starts no model call) and leaves
\* status, result and error unchanged.
C3_SubmitWhileProcessingRejected ==
    [][(variant \in {"p004", "p005", "p008"} /\ status = "processing" /\ SubmitArrives) =>
          (resp'.code = 409 /\ UNCHANGED <<status, result, error, req>>)]_vars

\* C4 (as claimed): at most one model invocation is in flight for the session.
C4_AtMostOneInFlight ==
    variant \in {"p005", "p008"} => Cardinality(InFlight) <= 1

\* The message of the job's error: this.error, or this.result.error where
\* the version has no this.error.
JobMessage(r, e) ==
    IF variant \in {"p005", "p007"} THEN (IF e = NoError THEN "" ELSE e)
    ELSE IF r.t = "job" /\ r.hasErr THEN r.error ELSE ""

\* C5 (as claimed, for the objects that have this.error): when the model
\* call of an accepted submit fails, the status becomes 'error' with a
\* non-empty message and the result is absent.
C5_UpstreamFailureLeavesNoResult ==
    [][(variant \in {"p005", "p007"} /\ run'.outcome = "threw"
          /\ req'[run'.slot].pc = "free") =>
          (status' = "error" /\ JobMessage(result', error') # "" /\ ~Populated(result'))]_vars

\* C6 (as claimed): whenever a job of part_005 is 'complete', its result has
\* the five keys of the schema and anomalies_and_errors is an array.
C6_CompleteHasSchema ==
    (variant = "p005" /\ status = "complete") => HasSchema(result)

\* The reply is an object with the five keys and an array, or its JSON text.
Conforms(r) == r.shape \in TextShapes \cup ObjShapes /\ r.text = <<"{", "F", "}">>

\* C6 (amended): whenever a job of part_005 is 'complete', its result is
\* populated (truthy and, if an object, with at least one key), and it has the
\* five keys with anomalies_and_errors an array when the reply just parsed is
\* such an object or the JSON text of one.
C6_CompletePopulatedAndSchemaPreserved ==
    (variant = "p005" /\ status = "complete") =>
        /\ Populated(result)
        /\ (run.outcome = "returned" /\ Conforms(run.reply)) => HasSchema(result)

C6_Witness ==
    /\ variant = "p005" /\ status = "complete" /\ run.outcome = "returned"
    /\ run.reply = Reply("choices_message", <<"{", "F", "}">>)
    /\ HasSchema(result)

\* C7: part_005 gives AI.run the shapes input, prompt, messages, text in this
\* order: the first call is input; a call is followed by the next shape only
\* when it threw; a call that returns ends the sequence; and when the
\* fourth call throws the job is 'error' with the message that all input
\* formats failed.
C7_ShapesTriedInOrder ==
    [][variant = "p005" =>
        \A s \in Slots :
          LET order == <<"input", "prompt", "messages", "text">>
              n == Len(req[s].calls)
          IN  /\ req'[s].pc = "run" =>
                    /\ Len(req'[s].calls) \in 1..4
                    /\ req'[s].calls = SubSeq(order, 1, Len(req'[s].calls))
              /\ (req[s].pc = "body" /\ req'[s].pc = "run") => req'[s].calls = <<"input">>
              /\ (req[s].pc = "run" /\ req'[s].pc = "run" /\ req'[s].calls # req[s].calls) =>
                    /\ run'.outcome = "threw" /\ run'.slot = s /\ run'.shape = order[n]
                    /\ req'[s].calls = Append(req[s].calls, order[n + 1])
              /\ (run'.outcome = "returned" /\ run'.slot = s) => req'[s].pc = "free"
              /\ (run'.outcome = "threw" /\ run'.slot = s /\ n = 4) =>
                    /\ req'[s].pc = "free"
                    /\ status' = "error"
                    /\ error' = "Analysis failed: All input formats failed. Last error: "
                                  \o run'.msg]_vars

C7_Witness ==
    /\ variant = "p005" /\ run.outcome = "threw" /\ run.shape = "text"
    /\ req[run.slot].pc = "free" /\ status = "error"

\* The text cannot be coerced to JSON: JSON.parse throws on it and on the
\* text the regular expression extracts from it, if any.
NotCoercible(x) == ~CanParse(x) /\ ~ExtractJson(x).ok

\* C8: when AI.run returns a non-empty text, bare or under .response,
\* .result, .choices[0] or .message, that cannot be coerced to JSON, the job
\* of part_005 is 'complete' and its result carries the reply under
\* raw_response.
C8_UnparseableReplySalvaged ==
    (/\ variant = "p005" /\ run.outcome = "returned"
     /\ run.reply.shape \in TextShapes /\ run.reply.text # <<>>
     /\ NotCoercible(run.reply.text)) =>
        /\ status = "complete"
        /\ result.t = "raw"
        /\ result.raw.text = run.reply.text
        /\ storage.status = "complete" /\ storage.result = result

C8_Witness ==
    /\ variant = "p005" /\ run.outcome = "returned"
    /\ run.reply = Reply("response", <<"{", "w", "}">>)
    /\ status = "complete" /\ result = RawObj(run.reply, TRUE)

\* A status request is answered in this step.
StatusStep == resp'.op = "status"

\* C9: a status request changes neither status, result, error nor the
\* storage and starts no model call; its response is the current status,
\* result and error, and a status read that directly follows a status read
\* returns the same response.
C9_StatusReadIsPure ==
    [][StatusStep =>
          /\ UNCHANGED <<status, result, error, storage, req>>
          /\ resp'.body.status = status /\ resp'.body.result = result
          /\ (variant \in {"p005", "p007"} => resp'.body.error = error)
          /\ (resp.op = "status" => resp' = resp)]_vars

C9_Witness ==
    /\ resp.op = "status" /\ resp.body.status = "processing"
    /\ \E s \in Slots : req[s].pc = "run"

\* C10: a status read made before any submit has been delivered returns 'idle'.
C10_StatusBeforeSubmitIsIdle ==
    (~submitted /\ resp.op = "status") => resp.body.status = "idle"

C10_Witness == ~submitted /\ resp.op = "status" /\ resp.body.status = "idle"

(***************************************************************************)
(* The claims on the Backend client.                                       *)
(***************************************************************************)
\* The callback of pollStatus handles the answer of the object to the status
\* request i of call c.
Handles(c, i) == polls[c][i].st = "answered" /\ polls'[c][i].st = "free"

\* What C11 holds of every step, but for the value of a rejection on 'error'.
PollLifecycle(c) ==
    /\ call[c].timer \in {0, PollPeriod}
    /\ (call[c].timer # 0 /\ \E i \in PollIds : polls[c][i].st = "free")
          => \E i \in PollIds : ENABLED pollStatus_tick(c, i)
    /\ call[c].timer = 0 =>
          \A i \in PollIds : polls[c][i].st = "free" => polls'[c][i].st = "free"
    /\ call[c].pc \in {"resolved", "rejected"} =>
          (call'[c].pc = call[c].pc /\ call'[c].value = call[c].value /\ call'[c].timer = 0)
    /\ \A i \in PollIds : Handles(c, i) =>
          LET b == polls[c][i].body
          IN  /\ b.status \notin {"complete", "error"} => call'[c] = call[c]
              /\ b.status \in {"complete", "error"} => call'[c].timer = 0
              /\ (b.status = "complete" /\ call[c].pc = "polling") =>
                    (call'[c].pc = "resolved" /\ call'[c].value = b.result)
              /\ (b.status = "error" /\ call[c].pc = "polling") => call'[c].pc = "rejected"

\* The message of the job's error in the body b of a status response.
JobMessageIn(b) == JobMessage(b.result, IF "error" \in DOMAIN b THEN b.error ELSE NoError)

\* C11 (as claimed): pollStatus asks for the status every second for as long
\* as the status it observes is neither 'complete' nor 'error', without a
\* limit; a 'complete' or 'error' answer clears the timer, after which no
\* status request is sent, and settles the promise, once: resolved with the
\* job's result, rejected with the job's error.
C11_RejectsWithJobError ==
    [][\A c \in Slots :
        /\ PollLifecycle(c)
        /\ \A i \in PollIds :
              (Handles(c, i) /\ polls[c][i].body.status = "error" /\ call[c].pc = "polling")
                => call'[c].value = ErrorOf(JobMessageIn(polls[c][i].body))]_vars

\* What does hold of pollStatus: the life cycle of C11, and a rejection on
\* 'error' that carries the `error` property of the status response, or
\* "An unknown error occurred during analysis." when the response has none
\* or an empty one, as with the part_008 and part_004 objects, whose status
\* response holds the message of the job's error in result.error.
C11_PollUntilTerminal ==
    [][\A c \in Slots :
        /\ PollLifecycle(c)
        /\ \A i \in PollIds :
              (Handles(c, i) /\ polls[c][i].body.status = "error" /\ call[c].pc = "polling")
                => /\ call'[c].value =
                        ErrorOf(IF ErrorField(polls[c][i].body) # ""
                                THEN ErrorField(polls[c][i].body) ELSE UnknownMsg)
                   /\ variant \in {"p005", "p007"} =>
                        call'[c].value = ErrorOf(JobMessageIn(polls[c][i].body))]_vars

\* A call is settled and its timer cleared while the answer to another of
\* its status requests, a different one, is still on its way back.
C11_Witness ==
    \E c \in Slots, i \in PollIds :
        /\ call[c].pc = "rejected"
        /\ call[c].timer = 0
        /\ call[c].value = ErrorOf(UnknownMsg)
        /\ polls[c][i].st = "answered"
        /\ polls[c][i].body.status = "complete"

\* C12 (as claimed, its safety part, for the Backend of config.js): a call
\* that resolves does so with the
\* result that the job of its own submit produced, not with that of another
\* job of the session.
C12_ResolvesWithOwnResult ==
    Client = "config.js" =>
        \A c \in Slots : call[c].pc = "resolved" => call[c].value = made[c]

\* What does hold: a Backend object that makes one call, and no other, gets
\* the result of its own submit.
C12_SingleCallOwnResult ==
    (\A b \in Slots : b # 1 => call[b].pc = "idle") =>
        (call[1].pc = "resolved" => call[1].value = made[1])

\* A status request of call c fails: its fetch rejects or is answered non-OK.
StatusFails(c) ==
    \E i \in PollIds :
        polls[c][i].st = "sent" /\ polls'[c][i].st = "free"

\* The POST of call c fails: its fetch rejects, or the response is not OK or
\* cannot be parsed.
SubmitFails(c) == call[c].pc \in {"posted", "waiting"} /\ call'[c].pc = "rejected"

\* C13 (the Backend of config.js): a failed request is not sent again.  A
\* failed submit rejects the call with a message, and the call stays
\* rejected without a timer; a status request that fails clears the timer
\* and rejects the pending promise whatever the status of the job, and no
\* status request is sent afterwards.
C13_NoRetry ==
    [][Client = "config.js" =>
        \A c \in Slots :
            /\ SubmitFails(c) =>
                  /\ call'[c].value.t = "Error" /\ call'[c].value.msg # ""
                  /\ call'[c].timer = 0
                  /\ UNCHANGED <<status, result, error, req, polls>>
            /\ StatusFails(c) =>
                  /\ call'[c].timer = 0
                  /\ call[c].pc = "polling" =>
                        (call'[c].pc = "rejected" /\ call'[c].value.t = "Error")
                  /\ UNCHANGED <<status, result, error, req>>
            /\ call[c].pc = "rejected" =>
                  /\ call'[c].pc = "rejected" /\ call'[c].timer = 0
                  /\ \A i \in PollIds : polls[c][i].st = "free" => polls'[c][i].st = "free"]_vars

\* One status request answered 503 has ended the poll of a job that is still
\* being processed.
C13_Witness ==
    \E c \in Slots :
        /\ variant = "p008"
        /\ status = "processing"
        /\ req[c].pc = "run"
        /\ call[c].pc = "rejected"
        /\ call[c].value = ErrorOf("Status check failed: 503")
        /\ call[c].timer = 0

(***************************************************************************)
(* The claims on the button-driven client.                                 *)
(***************************************************************************)
\* The click has ended with the indicator hidden and an error shown.
FailureShown == ~page.loading /\ (page.message # "" \/ page.report # "")

\* C14 (as claimed): every failure of a click (no file, a POST that is
\* answered non-OK or throws, a status request that fails or cannot be
\* parsed, a job reported as 'error') ends with the loading indicator hidden
\* and an error message shown.
C14_EveryFailureShown ==
    (page.pc = "ended" /\ page.fault # "none") => FailureShown

\* What does hold: every failure but that of a status request ends with the
\* indicator hidden and an error shown, against the part_008 object.
C14_FailuresBeforePollingShown ==
    (page.pc = "ended" /\ page.fault \notin {"none", "status failed"}) => FailureShown

(***************************************************************************)
(* The claims on the Worker.                                               *)
(***************************************************************************)
\* What a status read of the object named n returns.
StatusOf(n) ==
    IF n = here THEN [status |-> status, result |-> result, error |-> error]
    ELSE [status |-> others[n].status, result |-> others[n].result,
          error |-> others[n].error]

\* The step is a step of a handler of the object shown, on a request that
\* carried the header h.
HandledFor(h) == here' = here /\ SessionId(h) = here

\* C15 (as claimed): a request carrying X-Session-ID s changes nothing of
\* what a status read under another X-Session-ID returns.
C15_SessionsIsolated ==
    [][\A h, g \in Headers \ {NoHeader} :
        (h # g /\ HandledFor(h)) => StatusOf(SessionId(g))' = StatusOf(SessionId(g))]_vars

\* C15 (amended): a request carrying a non-empty X-Session-ID s changes
\* nothing of what a status read under another non-empty X-Session-ID
\* returns; a request with no X-Session-ID or an empty one is served by the
\* object named "default", like a request carrying "default"; and handing a
\* request to its object changes no object.
C15_NamedSessionsIsolated ==
    [][/\ \A h, g \in Headers \ {NoHeader, ""} :
            (h # g /\ HandledFor(h)) => StatusOf(SessionId(g))' = StatusOf(SessionId(g))
       /\ \A h \in {NoHeader, ""} : SessionId(h) = "default"
       /\ here' # here => \A n \in Names : StatusOf(n)' = StatusOf(n)]_vars

\* The job of one session is complete while that of the other is being
\* processed.
C15_Witness ==
    /\ here = "a"
    /\ status = "complete"
    /\ others["default"].status = "processing"

(***************************************************************************)
(* The claims on the progress of the job.                                  *)
(***************************************************************************)
Terminal == status \in {"complete", "error"}

\* C16: once the model call of an accepted submit is in flight, its handler
\* ends with the status 'complete' or 'error', with no assumption that a
\* status request is ever made; and a status request leaves the status and
\* the requests in progress as they are.
C16_JobEndsUnpolled ==
    /\ \A s \in Slots : (req[s].pc = "run") ~> (req[s].pc = "free" /\ Terminal)
    /\ [][StatusStep => UNCHANGED <<status, req>>]_vars

\* A model call has just ended and no status request has been answered since.
C16_Witness ==
    /\ run.outcome # "none"
    /\ Terminal
    /\ resp.op # "status"

(***************************************************************************)
(* The claims on PcapParser.                                               *)
(***************************************************************************)
\* The last characters of the name are those of the extension, in either case.
HasExtension(name) ==
    \E i \in DOMAIN supportedFormats :
        LET ext == supportedFormats[i]
        IN  /\ Len(name) >= Len(ext)
            /\ \A j \in 1..Len(ext) :
                   LowerOf(name[Len(name) - Len(ext) + j]) = ext[j]

Parsed == parser.pc # "idle"

\* C17: validateFile throws the unsupported-format error for every file
\* whose name does not end in .pcap or .pcapng, in either case, and returns
\* true for every file of at most maxFileSize bytes whose name does;
\* whatever the content of the file, the outcome is the same.
C17_ValidatesByExtension ==
    Parsed =>
        /\ ~HasExtension(parser.file.name) => parser.checked = Thrown(UnsupportedMsg)
        /\ (HasExtension(parser.file.name) /\ parser.file.size <= maxFileSize)
               => parser.checked = ReturnedTrue
        /\ \A c \in Contents :
               validateFile([parser.file EXCEPT !.content = c]) = parser.checked

\* A name in upper case has been accepted.
C17_Witness ==
    /\ parser.pc = "resolved"
    /\ parser.file.name = <<"a", ".", "P", "C", "A", "P", "N", "G">>
    /\ parser.file.content = "text"

\* C18: validateFile throws for every file of more than maxFileSize bytes
\* and not for its size for a file of maxFileSize bytes or fewer; when
\* validateFile throws, parse rejects with that error, mockParse is not
\* started and the progress callback is not called.
C18_RejectsAboveCeiling ==
    Parsed =>
        /\ parser.file.size > maxFileSize => parser.checked.t = "threw"
        /\ parser.file.size <= maxFileSize => parser.checked # Thrown(TooLargeMsg)
        /\ parser.checked.t = "threw" =>
               /\ parser.pc = "rejected"
               /\ parser.progress = 0
               /\ parser.reported = <<>>

\* A file of one byte more than the ceiling has been rejected for its size.
C18_Witness ==
    /\ parser.pc = "rejected"
    /\ parser.checked = Thrown(TooLargeMsg)
    /\ parser.file.size = maxFileSize + 1
    /\ parser.callback

\* A file of exactly the ceiling has been parsed to the end with its
\* progress reported.
C18_AtCeilingParsed ==
    /\ parser.pc = "resolved"
    /\ parser.file.size = maxFileSize
    /\ parser.reported = <<100>>

(***************************************************************************)
(* The claims on the export.                                               *)
(***************************************************************************)
HasExported == app.exported # NoText

\* C19: the text written by exportJSON parses to a value equal to the report
\* object that was exported.
C19_ExportRoundTrips == HasExported => JSONparse(app.exported) = Exported

RECURSIVE JsonClean(_)
\* A value with no undefined member or item and no NaN.
JsonClean(v) ==
    CASE v.t = "plain" -> \A i \in DOMAIN v.members : JsonClean(v.members[i].val)
      [] v.t = "list" -> \A i \in DOMAIN v.items : JsonClean(v.items[i])
      [] OTHER -> v.t \notin {"undefined", "nan"}

\* What does hold of the export: the report of the server-backed page, and
\* any report without an undefined member and without a NaN, parses back to
\* itself.
C19_CleanReportRoundTrips ==
    (HasExported /\ (app.client = "part_005" \/ JsonClean(Exported)))
        => JSONparse(app.exported) = Exported

RECURSIVE Defined(_)
\* The value without its undefined members: what reading each property of
\* the value can tell.
Defined(v) ==
    CASE v.t = "plain" ->
             LET kept == SelectSeq(v.members, LAMBDA m : m.val.t # "undefined")
             IN  Plain([i \in DOMAIN kept |-> Member(kept[i].key, Defined(kept[i].val))])
      [] v.t = "list" -> List([i \in DOMAIN v.items |-> Defined(v.items[i])])
      [] OTHER -> v

\* The export parses to the report up to its undefined members.
C19_RoundTripsUpToUndefined ==
    HasExported => JSONparse(app.exported) = Defined(Exported)

C19_CleanExported ==
    /\ HasExported
    /\ app.client = "part_005"
    /\ Exported.t = "plain"

(***************************************************************************)
(* The claims on the renderers.                                            *)
(***************************************************************************)
HasRendered == app.rendered # Absent

DefaultTexts ==
    { "N/A", "No summary available.", "No anomalies detected.",
      "No significant anomalies or errors found.",
      "No comparison summary available.", "No significant differences found.",
      "No significant similarities found.", "No security implications identified." }

\* The renderer returned, and each part whose field the report lacks shows
\* a default text.
ReturnedWithDefaults(r) ==
    /\ r.out.t = "html"
    /\ \A i \in DOMAIN r.out.parts :
           Member_of(r.data, r.out.parts[i].key).t = "undefined"
               => /\ r.out.parts[i].val.t = "text"
                  /\ r.out.parts[i].val.x \in DefaultTexts

\* C20: for every report object, whatever fields it lacks, the renderers
\* return without throwing and show a default text for each field that the
\* report lacks.
C20_RenderersTotal == HasRendered => ReturnedWithDefaults(app.rendered)

\* The lists of the report are arrays, where the report has them.
ListsAreArrays(data) ==
    \A i \in DOMAIN data.members :
        data.members[i].key \in {"anomalies_and_errors", "key_differences",
                                 "key_similarities", "security_implications"}
            => data.members[i].val.t = "list"

\* What does hold of the renderers: the ReportRenderer of config.js returns
\* with a default text for each missing field on every report whose lists
\* are arrays, the raw_response object included.
C20_GuardedRendererTotal ==
    (HasRendered /\ app.rendered.by = "config.js" /\ ListsAreArrays(app.rendered.data))
        => ReturnedWithDefaults(app.rendered)

C20_RawResponseRendered ==
    /\ HasRendered
    /\ app.rendered.by = "config.js"
    /\ app.rendered.data = RawResponse
    /\ app.rendered.out.t = "html"

(***************************************************************************)
(* The claims on the restart of the object.                                *)
(***************************************************************************)
\* The step is the first status read after the object was constructed again.
FirstReadAfterRestart == run = Restarted /\ StatusStep

\* C21: a job persisted as 'complete' or 'error' is reported with the
\* persisted status, result and error by the first status read after the
\* object is constructed again.
C21_RestartRestoresJob ==
    [][(FirstReadAfterRestart /\ storage.status \in {"complete", "error"})
          => /\ resp'.body.status = storage.status
             /\ (storage.status = "complete" => resp'.body.result = storage.result)
             /\ (variant \in {"p005", "p007"} => resp'.body.error = storage.error)]_vars

\* What does hold of the restart: part_004 reports the persisted status,
\* and every version reports 'idle' when nothing was persisted.
C21_StatusKeyRestored ==
    [][FirstReadAfterRestart
          => /\ (variant = "p004" /\ storage.status # Unset)
                    => resp'.body.status = storage.status
             /\ storage.status = Unset => resp'.body.status = "idle"]_vars

C21_RestartedAfterComplete ==
    /\ run = Restarted
    /\ storage.status = "complete"
    /\ variant = "p004"
    /\ status = "complete"

(***************************************************************************)
(* The claims on the jobs of the button-driven client.                     *)
(***************************************************************************)
Settled(j) == dom.jobs[j].pc \in {"shown", "failed"}

\* C22: a job's report or error is never put into the report container once
\* a job started later has been shown, and when every job started has been
\* shown the container holds the report or error of the last one started.
C22_LatestJobShown ==
    /\ [][\A j \in DOMAIN dom.jobs :
            (dom'.reportContainer = Shows(j, "report") \/ dom'.reportContainer = Shows(j, "error"))
            /\ dom'.reportContainer # dom.reportContainer
                => \A k \in DOMAIN dom.jobs : k > j => ~Settled(k)]_vars
    /\ []((dom.jobs # <<>> /\ \A j \in DOMAIN dom.jobs : Settled(j))
             => dom.reportContainer.of = Len(dom.jobs))

\* What does hold: the container holds the report or error of the job whose
\* end was handled last, and it is empty from a click to the next end.
C22_LastHandledShown ==
    [][\A j \in DOMAIN dom.jobs :
          (~Settled(j) /\ Settled(j)') => dom'.reportContainer.of = j]_vars

C22_EarlierShownLast ==
    /\ Len(dom.jobs) = 2
    /\ Settled(1) /\ Settled(2)
    /\ dom.reportContainer = Shows(1, "report")

(***************************************************************************)
(* The claims on PCAPAnalyzerApp.                                          *)
(***************************************************************************)
InProgress(i) == app.runs[i].pc \in {"parsing", "parsing2"}

\* C23: the loading indicator is displayed exactly when a run of
\* startAnalysis or startComparison is in progress.
C23_IndicatorWhileInProgress ==
    app.loadingIndicator <=> \E i \in DOMAIN app.runs : InProgress(i)

\* What does hold: the indicator is displayed from a start to the first end
\* of a run after it, and hidden when no run is in progress.
C23_IndicatorHiddenWhenIdle ==
    (\A i \in DOMAIN app.runs : ~InProgress(i)) => ~app.loadingIndicator

C23_HiddenWhileParsing ==
    /\ ~app.loadingIndicator
    /\ \E i \in DOMAIN app.runs : InProgress(i)

\* C24: when the export buttons are visible, currentAnalysisData is not null
\* and the report container was rendered from its type, data and file names.
C24_ExportedIsShown ==
    app.exportButtons = "visible"
        => /\ app.currentAnalysisData # Null
           /\ app.reportContainer = RenderedFrom(app.currentAnalysisData)

\* The buttons are visible after the second of two overlapping runs ended
\* and the report has been exported.
C24_Witness ==
    /\ app.exportButtons = "visible"
    /\ Len(app.runs) = 2
    /\ app.runs[1].pc = "failed" /\ app.runs[2].pc = "done"
    /\ app.exported # NoText

(***************************************************************************)
(* The claims on the job-ID client.                                        *)
(***************************************************************************)
\* C25: at most one interval timer of pollForStatus is set at any time.
C25_OnePollingTimer == Cardinality(Active) <= 1

\* What does hold: a timer is set only while a job id is known.
C25_TimerNeedsJob == Active # {} => dom.currentJobId # NoJob

C25_TwoTimers ==
    /\ Cardinality(Active) = 2
    /\ Len(dom.started) = 1

(***************************************************************************)
(* The claims on formatPrompt.                                             *)
(***************************************************************************)
Placeholders == {"pcap_data_snippet", "file_name", "label1", "label2",
                 "pcap_data_snippet1", "pcap_data_snippet2"}

Remaining(text) == {n \in Placeholders : \E i \in DOMAIN text : text[i] = Placeholder(n)}

\* C26: the prompt built for an analysis or a comparison contains none of the
\* placeholders, also when a placeholder occurs more than once in the template.
C26_NoPlaceholderLeft == prompt # Unbuilt => Remaining(prompt.text) = {}

\* What does hold: the prompt of an analysis whose file name is plain text
\* contains no placeholder, and no prompt keeps a snippet placeholder.
C26_AnalysisPromptFilled ==
    prompt # Unbuilt =>
        /\ prompt.type = "analysis" /\ prompt.data.file_name \in PlainNames
               => Remaining(prompt.text) = {}
        /\ Remaining(prompt.text) \subseteq {"file_name", "label1", "label2"}

C26_LabelsLeft ==
    /\ prompt # Unbuilt
    /\ prompt.type = "comparison"
    /\ prompt.data.label1 \in PlainNames
    /\ prompt.data.label2 \in PlainNames
    /\ Remaining(prompt.text) = {"label1", "label2"}

(***************************************************************************)
(* The claims on the normalisation of the mock parser.                     *)
(***************************************************************************)
Analysed ==
    /\ app.client = "app.js"
    /\ app.currentAnalysisData # Null
    /\ Member_of(app.currentAnalysisData, "type") = Text("analysis")

Normalized ==
    Member_of(Member_of(app.currentAnalysisData, "data"), "protocol_distribution").members

RECURSIVE SumOf(_, _)
SumOf(d, n) == IF n = 0 THEN 0 ELSE d[n].val.n + SumOf(d, n - 1)

Percentages(d) == \A i \in DOMAIN d : d[i].val.t = "num" /\ d[i].val.n \in 0..100

\* C27: after the normalisation every value of protocolNormalized is an
\* integer from 0 to 100 and the values sum to exactly 100, for every draw of
\* the raw values, the draw of all 0 included.
C27_NormalizedTo100 ==
    Analysed => /\ Percentages(Normalized)
                /\ SumOf(Normalized, Len(Normalized)) = 100

\* What does hold: the values are all NaN (the raw values all 0), or integers
\* from 0 to 100 whose sum is within the rounding of five values of 100.
C27_NormalizedNearly ==
    Analysed => \/ \A i \in DOMAIN Normalized : Normalized[i].val = NaN
                \/ /\ Percentages(Normalized)
                   /\ SumOf(Normalized, Len(Normalized)) \in 98..102

C27_SumIs99 ==
    /\ Analysed
    /\ Percentages(Normalized)
    /\ SumOf(Normalized, Len(Normalized)) = 99

C27_AllNaN ==
    /\ Analysed
    /\ \A i \in DOMAIN Normalized : Normalized[i].val = NaN

(***************************************************************************)
(* The claims on the message box.                                          *)
(***************************************************************************)
HiddenByTimeout(k) ==
    /\ k \in Pending
    /\ ~dom'.timeouts[k].pending
    /\ dom.messageBox.display = "flex"

\* C28: a timeout hides the message on display only when that message has
\* been shown for its 5 seconds: the timer of an earlier message never hides
\* a later message early.
C28_NoEarlyHide ==
    [][\A k \in DOMAIN dom.timeouts :
           HiddenByTimeout(k) => dom.now >= dom.messageBox.since + HideAfter]_vars

\* What does hold: no message stays on display beyond its 5 seconds, and a
\* message shown alone is hidden by its own timeout at 5 seconds.
C28_HiddenInTime ==
    /\ [](dom.messageBox.display = "flex" => dom.now <= dom.messageBox.since + HideAfter)
    /\ [][\A k \in DOMAIN dom.timeouts :
              HiddenByTimeout(k) /\ dom.messageBox.message = k
                  => dom.now = dom.messageBox.since + HideAfter]_vars

C28_LaterMessageShown ==
    /\ dom.messageBox.display = "flex"
    /\ dom.messageBox.message = 2
    /\ 1 \in Pending
    /\ dom.timeouts[1].due <= dom.now
    /\ dom.now < dom.messageBox.since + HideAfter

(***************************************************************************)
(* The claims on the progress bar.                                         *)
(***************************************************************************)
NonDecreasing(seq) ==
    \A i \in DOMAIN seq : \A j \in DOMAIN seq :
        i < j => seq[i].percentage <= seq[j].percentage

ByStartAnalysis == SelectSeq(dom.analysis.passed, LAMBDA c : c.by = "startAnalysis")

EndsAt100 ==
    dom.analysis.pc = "done" =>
        dom.analysis.passed[Len(dom.analysis.passed)].percentage = 100

\* C29: during one run of startAnalysis the percentages passed to
\* updateProgress never decrease, and on success the last one is 100.
C29_ProgressNeverDecreases == NonDecreasing(dom.analysis.passed) /\ EndsAt100

\* What does hold: the percentages that startAnalysis itself passes never
\* decrease, and on success the last percentage passed is 100.
C29_OwnProgressNeverDecreases == NonDecreasing(ByStartAnalysis) /\ EndsAt100

C29_BackTo80 ==
    /\ dom.analysis.pc = "done"
    /\ \E i \in DOMAIN dom.analysis.passed :
           /\ i > 1
           /\ dom.analysis.passed[i] = Passed("startAnalysis", 80)
           /\ dom.analysis.passed[i - 1] = Passed("parse", 100)
====
